---- MODULE Spec2Model ----
(***************************************************************************)
(* Weekly channel-performance report: the week partitioner, the bucket     *)
(* classifier, the weekly aggregator and the export run of                 *)
(* new_shpify_report.py, with the single-export run of                     *)
(* playwright_runner.py.                                                   *)
(*                                                                         *)
(* Dates are day ordinals (date.toordinal()); text is a sequence of        *)
(* one-character strings; money is an integer number of mills (1/1000), so *)
(* that rounding to 2 decimals is a real operation; GPM is an integer      *)
(* number of 1/10000.                                                      *)
(***************************************************************************)
EXTENDS Integers, Sequences, FiniteSets, TLC

VARIABLES
    \* ---- iter_weeks run on its own (SpecWeeks)
    p_since, p_until, p_ws, p_cur, p_out, p_pc,
    \* ---- bucket_row run on its own (SpecClassify)
    c_rp, c_ch, c_ty, c_bucket, c_pc,
    \* ---- summarize_channel_csv_to_weekly_row run on its own (SpecAgg)
    a_layout, a_rows, a_start, a_end, a_today, a_result, a_pc,
    a_env,               \* the pandas behaviours the first call met (SpecRerun)
    a_first,             \* the result of the first call (SpecRerun)
    \* ---- build_misc_notes run on its own (SpecMisc)
    m_rows, m_notes, m_pc,
    \* ---- to_number run on its own (SpecNumber)
    n_x, n_out, n_pc,
    \* ---- one run of a script (Spec)
    cfg,                 \* the configuration read from the environment
    state_file,          \* whether STATE_FILE exists
    state_file_at_start, \* whether it existed when the run began
    state_reads,         \* times the run has read STATE_FILE
    state_writes,        \* times the run has written STATE_FILE
    browser, context,    \* "none", "open", "closed"
    session,             \* the context: "none", "loaded" (from STATE_FILE), "fresh",
                         \* "login" (fresh and taken through the login step)
    authenticated,       \* whether the browser session is logged in
    pc, exit,            \* control point; how the run ended ("running" before)
    cur, week, attempted,       \* iter_weeks cursor, current range, ranges entered
    f_step, f_idx, f_tried, f_clicked, armed,   \* click_export_flow of this week
    raw_files, summary_files, all_summary_rows, combined,
    overwrite_first, tab, sync_calls,
    token,               \* whether token.json holds usable Google credentials
    prompts,             \* the interactive prompts answered in this run
    page_url             \* the address the page was last navigated to

partVars == <<p_since, p_until, p_ws, p_cur, p_out, p_pc>>
clsVars == <<c_rp, c_ch, c_ty, c_bucket, c_pc>>
aggVars == <<a_layout, a_rows, a_start, a_end, a_today, a_result, a_pc, a_env, a_first>>
miscVars == <<m_rows, m_notes, m_pc>>
numVars == <<n_x, n_out, n_pc>>

cfgV == <<cfg, state_file_at_start>>
sessV == <<state_file, state_reads, state_writes, browser, context, session, authenticated>>
ctlV == <<pc, exit>>
loopV == <<cur, week, attempted>>
flowV == <<f_step, f_idx, f_tried, f_clicked, armed>>
fileV == <<raw_files, summary_files, all_summary_rows, combined>>
sheetV == <<overwrite_first, tab, sync_calls>>
waitV == <<token, prompts, page_url>>
runVars == <<cfgV, sessV, ctlV, loopV, flowV, fileV, sheetV, waitV>>

vars == <<partVars, clsVars, aggVars, miscVars, numVars, runVars>>

\* what each part leaves alone
notPart == <<clsVars, aggVars, miscVars, numVars, runVars>>
notCls == <<partVars, aggVars, miscVars, numVars, runVars>>
notAgg == <<partVars, clsVars, miscVars, numVars, runVars>>
notMisc == <<partVars, clsVars, aggVars, numVars, runVars>>
notNum == <<partVars, clsVars, aggVars, miscVars, runVars>>
notRun == <<partVars, clsVars, aggVars, miscVars, numVars>>

\* iter_weeks is not running
PartIdle ==
    /\ p_since = 0 /\ p_until = 0 /\ p_ws = 0
    /\ p_cur = 0 /\ p_out = <<>> /\ p_pc = "idle"

\* bucket_row is not running
ClsIdle ==
    /\ c_rp = [v |-> [k |-> "none", s |-> <<>>], word |-> ""]
    /\ c_ch = [v |-> [k |-> "none", s |-> <<>>], word |-> ""]
    /\ c_ty = [v |-> [k |-> "none", s |-> <<>>], word |-> ""]
    /\ c_bucket = "" /\ c_pc = "idle"

\* summarize_channel_csv_to_weekly_row is not running
AggIdle ==
    /\ a_layout = <<>> /\ a_rows = <<>> /\ a_start = 0 /\ a_end = 0
    /\ a_today = 0
    /\ a_result = [raised |-> "none", row |-> <<>>] /\ a_pc = "idle"
    /\ a_env = <<>> /\ a_first = <<>>

\* build_misc_notes is not running
MiscIdle == m_rows = <<>> /\ m_notes = <<>> /\ m_pc = "idle"

\* to_number is not running
NumIdle == n_x = [k |-> "none", s |-> <<>>] /\ n_out = 0 /\ n_pc = "idle"

\* no script is running
RunIdle ==
    /\ cfg = [prog |-> "none"] /\ state_file_at_start = FALSE
    /\ state_file = FALSE /\ state_reads = 0 /\ state_writes = 0
    /\ browser = "none" /\ context = "none" /\ session = "none"
    /\ authenticated = FALSE
    /\ pc = "idle" /\ exit = "running"
    /\ cur = 0 /\ week = <<0, 0>> /\ attempted = <<>>
    /\ f_step = "idle" /\ f_idx = 0 /\ f_tried = <<>> /\ f_clicked = <<>>
    /\ armed = FALSE
    /\ raw_files = <<>> /\ summary_files = <<>> /\ all_summary_rows = <<>>
    /\ combined = <<>>
    /\ overwrite_first = FALSE /\ tab = <<>> /\ sync_calls = <<>>
    /\ token = FALSE /\ prompts = <<>> /\ page_url = "about:blank"

(***************************************************************************)
(* Date helpers                                                            *)
(***************************************************************************)

\* Largest day ordinal drawn for since / until when iter_weeks runs alone.
MaxDay == 16

WeekStartDays == 0 .. 6

\* date.weekday(): Mon = 0 ... Sun = 6; ordinal 1 is a Monday.
weekday(d) == (d + 6) % 7

\* mutant: the anchor is moved forward to the next week start
week_start_for_fwd(d, week_start) == d + ((week_start - weekday(d)) % 7)

week_start_for(d, week_start) == d - ((weekday(d) - week_start) % 7)

Min(a, b) == IF a <= b THEN a ELSE b

\* mutant: the week end is one day late (an 8-day week)
week_end_of_late(anchor) == anchor + 7

\* week_end = anchor + timedelta(days=6)
week_end_of(anchor) == anchor + 6

\* end = min(week_end, until) for the range starting at cur = from
iter_end(from, until, week_start) ==
    Min(week_end_of(week_start_for(from, week_start)), until)

\* mutant: the next range starts on the previous range's end day
iter_advance_same_day(end) == end

\* cur = end + timedelta(days=1)
iter_advance(end) == end + 1

\* list(iter_weeks(since, until, week_start)): the ranges the generator
\* yields, and whether it raised.
RECURSIVE iter_weeks_from(_, _, _)
iter_weeks_from(from, until, week_start) ==
    IF from <= until
    THEN LET end == iter_end(from, until, week_start)
         IN  <<<<from, end>>>> \o iter_weeks_from(iter_advance(end), until, week_start)
    ELSE <<>>

iter_weeks(since, until, week_start) ==
    [raised |-> "none", weeks |-> iter_weeks_from(since, until, week_start)]

(***************************************************************************)
(* Text and cell values                                                    *)
(***************************************************************************)

\* A cell as the code receives it: None, a float NaN (an empty CSV cell as
\* pandas reads it), or text.
None == [k |-> "none", s |-> <<>>]
NaN == [k |-> "nan", s |-> <<>>]
Str(t) == [k |-> "str", s |-> t]

\* str(x)
py_str(x) ==
    IF x.k = "none" THEN <<"N", "o", "n", "e">>
    ELSE IF x.k = "nan" THEN <<"n", "a", "n">>
    ELSE x.s

Whitespace == {" ", "\t", "\n"}

RECURSIVE lstrip(_)
lstrip(t) == IF t # <<>> /\ Head(t) \in Whitespace THEN lstrip(Tail(t)) ELSE t

RECURSIVE rstrip(_)
rstrip(t) ==
    IF t # <<>> /\ t[Len(t)] \in Whitespace
    THEN rstrip(SubSeq(t, 1, Len(t) - 1))
    ELSE t

\* mutant: only leading whitespace is removed
strip_left_only(t) == lstrip(t)

\* str.strip()
strip(t) == rstrip(lstrip(t))

UpperChars == <<"A", "B", "C", "D", "E", "F", "G", "H", "I", "J", "K", "L", "M", "N", "O", "P", "Q", "R", "S", "T", "U", "V", "W", "X", "Y", "Z">>
LowerChars == <<"a", "b", "c", "d", "e", "f", "g", "h", "i", "j", "k", "l", "m", "n", "o", "p", "q", "r", "s", "t", "u", "v", "w", "x", "y", "z">>

\* the lower-case letter of each upper-case letter
LowerOf ==
    [c \in {UpperChars[i] : i \in 1 .. Len(UpperChars)} |->
        LowerChars[CHOOSE i \in 1 .. Len(UpperChars) : UpperChars[i] = c]]

lower_char(c) == IF c \in DOMAIN LowerOf THEN LowerOf[c] ELSE c

\* str.lower()
lower(t) == [i \in 1 .. Len(t) |-> lower_char(t[i])]

(***************************************************************************)
(* Bucket classification                                                   *)
(***************************************************************************)

DirectOrganic == "Direct Website Sales (Organic)"
GoogleAdsPaid == "Google ads (Sales)"
GoogleOrganic == "Google Search (Organic Sales)"
AttentiveSMS == "Attentive SMS (Sales)"
PriveyEmail == "Privey Email Marketing (Sales)"
ActiveCampaign == "ActiveCampaign (Sales)"
OtherMisc == "Other Channel Sales MISC"

Buckets ==
    {DirectOrganic, GoogleAdsPaid, GoogleOrganic, AttentiveSMS, PriveyEmail,
     ActiveCampaign, OtherMisc}

safe_lower(x) ==
    IF x.k = "none" THEN <<>>
    ELSE IF x.k = "nan" THEN <<>>
    ELSE lower(strip(py_str(x)))

T_direct == <<"d", "i", "r", "e", "c", "t">>
T_google == <<"g", "o", "o", "g", "l", "e">>
T_paid == <<"p", "a", "i", "d">>
T_organic == <<"o", "r", "g", "a", "n", "i", "c">>
T_attentive == <<"a", "t", "t", "e", "n", "t", "i", "v", "e">>
T_privy == <<"p", "r", "i", "v", "y">>
T_activecampaign == <<"a", "c", "t", "i", "v", "e", "c", "a", "m", "p", "a", "i", "g", "n">>

\* mutant: the google rules are tested before the direct rule
bucket_row_google_first(ref_platform, channel, typ) ==
    LET rp == safe_lower(ref_platform)
        ch == safe_lower(channel)
        ty == safe_lower(typ)
    IN  IF ch = T_google /\ ty = T_paid THEN GoogleAdsPaid
        ELSE IF ch = T_google /\ ty = T_organic THEN GoogleOrganic
        ELSE IF ch = T_direct \/ rp = T_direct THEN DirectOrganic
        ELSE IF ch = T_attentive \/ rp = T_attentive THEN AttentiveSMS
        ELSE IF ch = T_privy \/ rp = T_privy THEN PriveyEmail
        ELSE IF ch = T_activecampaign \/ rp = T_activecampaign THEN ActiveCampaign
        ELSE OtherMisc

bucket_row(ref_platform, channel, typ) ==
    LET rp == safe_lower(ref_platform)
        ch == safe_lower(channel)
        ty == safe_lower(typ)
    IN  IF ch = T_direct \/ rp = T_direct THEN DirectOrganic
        ELSE IF ch = T_google /\ ty = T_paid THEN GoogleAdsPaid
        ELSE IF ch = T_google /\ ty = T_organic THEN GoogleOrganic
        ELSE IF ch = T_attentive \/ rp = T_attentive THEN AttentiveSMS
        ELSE IF ch = T_privy \/ rp = T_privy THEN PriveyEmail
        ELSE IF ch = T_activecampaign \/ rp = T_activecampaign THEN ActiveCampaign
        ELSE OtherMisc

(***************************************************************************)
(* Numbers                                                                 *)
(***************************************************************************)

Digits == <<"0", "1", "2", "3", "4", "5", "6", "7", "8", "9">>

\* the value of each digit character
DigitValues ==
    [c \in {Digits[i] : i \in 1 .. 10} |-> (CHOOSE i \in 1 .. 10 : Digits[i] = c) - 1]

IsDigit(c) == c \in DOMAIN DigitValues

DigitVal(c) == DigitValues[c]

RECURSIVE DigitsValue(_)
DigitsValue(t) ==
    IF t = <<>> THEN 0
    ELSE DigitsValue(SubSeq(t, 1, Len(t) - 1)) * 10 + DigitVal(t[Len(t)])

\* str.replace(ch, ""): every occurrence of the character is removed
RECURSIVE remove_char(_, _)
remove_char(t, ch) ==
    IF t = <<>> THEN <<>>
    ELSE IF Head(t) = ch THEN remove_char(Tail(t), ch)
    ELSE <<Head(t)>> \o remove_char(Tail(t), ch)

\* The fraction digits as mills (three places; the texts drawn carry no more).
FracMills(f) ==
    IF Len(f) = 0 THEN 0
    ELSE IF Len(f) = 1 THEN DigitsValue(f) * 100
    ELSE IF Len(f) = 2 THEN DigitsValue(f) * 10
    ELSE DigitsValue(SubSeq(f, 1, 3))

\* n / d rounded to the nearest integer, ties to the even one (d > 0)
RoundHalfEven(n, d) ==
    LET q == n \div d
        r == n % d
    IN  IF 2 * r < d THEN q
        ELSE IF 2 * r > d THEN q + 1
        ELSE IF q % 2 = 0 THEN q ELSE q + 1

\* digitpart of a float literal: digits, with single underscores between them
IsDigitPart(t) ==
    /\ t # <<>> /\ IsDigit(t[1]) /\ IsDigit(t[Len(t)])
    /\ \A i \in 1 .. Len(t) : IsDigit(t[i]) \/ t[i] = "_"
    /\ \A i \in 1 .. Len(t) - 1 : ~(t[i] = "_" /\ t[i + 1] = "_")

RECURSIVE Pow10(_)
Pow10(k) == IF k = 0 THEN 1 ELSE 10 * Pow10(k - 1)

NotAFloat == [ok |-> FALSE, kind |-> "none", v |-> 0]

\* the one element of a one-element set
Only(S) == CHOOSE x \in S : TRUE

\* float(s), the decimal literal: integer part ip, fraction part fp (either
\* may be missing when there is a point), exponent text etext after e or E
float_decimal(neg, ip, fp, hasDot, hasExp, etext) ==
    LET eneg == etext # <<>> /\ etext[1] = "-"
        edigits == IF etext # <<>> /\ etext[1] \in {"+", "-"} THEN Tail(etext) ELSE etext
        wellFormed ==
            /\ \/ IsDigitPart(ip) /\ (fp = <<>> \/ IsDigitPart(fp))
               \/ ip = <<>> /\ hasDot /\ IsDigitPart(fp)
            /\ ~hasDot => fp = <<>>
            /\ hasExp => IsDigitPart(edigits)
    IN  IF ~wellFormed THEN NotAFloat
        ELSE LET mag == DigitsValue(remove_char(ip, "_")) * 1000
                            + FracMills(remove_char(fp, "_"))
                 ex == IF hasExp THEN DigitsValue(remove_char(edigits, "_")) ELSE 0
                 scaled == IF eneg THEN RoundHalfEven(mag, Pow10(ex)) ELSE mag * Pow10(ex)
             IN  [ok |-> TRUE, kind |-> "finite", v |-> IF neg THEN 0 - scaled ELSE scaled]

\* float(s), the mantissa split at its first point
float_mantissa(neg, mant, hasExp, etext) ==
    LET dots == {i \in 1 .. Len(mant) : mant[i] = "."}
    IN  Only({float_decimal(neg, SubSeq(mant, 1, dot - 1),
                            SubSeq(mant, dot + 1, Len(mant)), dots # {}, hasExp, etext) :
                 dot \in {IF dots = {} THEN Len(mant) + 1
                          ELSE CHOOSE i \in dots : \A j \in dots : i <= j}})

\* float(s), what follows the sign: inf, infinity or nan in any case, or a
\* decimal literal split at its first e or E
float_unsigned(neg, body) ==
    LET es == {i \in 1 .. Len(body) : body[i] \in {"e", "E"}}
    IN  IF Len(body) = 3 /\ lower(body) = <<"n", "a", "n">>
        THEN [ok |-> TRUE, kind |-> "nan", v |-> 0]
        ELSE IF Len(body) \in {3, 8}
                /\ lower(body) \in {<<"i", "n", "f">>, <<"i", "n", "f", "i", "n", "i", "t", "y">>}
        THEN [ok |-> TRUE, kind |-> IF neg THEN "-inf" ELSE "inf", v |-> 0]
        ELSE Only({float_mantissa(neg, SubSeq(body, 1, epos - 1), es # {},
                                  SubSeq(body, epos + 1, Len(body))) :
                      epos \in {IF es = {} THEN Len(body) + 1
                                ELSE CHOOSE i \in es : \A j \in es : i <= j}})

\* float(s): surrounding whitespace, an optional sign, then inf, infinity or
\* nan in any case, or a decimal literal (digit parts around at most one
\* point, an optional exponent); anything else is a ValueError (ok = FALSE).
\* kind is "finite", "nan", "inf" or "-inf"; a finite value is in mills (the
\* texts drawn carry whole mills).
py_float(t) ==
    Only({float_unsigned(u # <<>> /\ u[1] = "-",
                         IF u # <<>> /\ u[1] \in {"+", "-"} THEN Tail(u) ELSE u) :
             u \in {strip(t)}})

\* the one character U+2014 (em dash), which the module's character set lacks
EmDash == "U+2014"

\* the texts to_number maps to 0.0 before parsing
ZeroTexts == {<<>>, <<EmDash>>, <<"-">>, <<"n", "a", "n">>, <<"N", "o", "n", "e">>}

\* the float 0.0, returned
Zero == [raised |-> FALSE, kind |-> "finite", v |-> 0]

\* mutant: the thousands separators are left in the text
to_number_keeps_commas(x) ==
    IF x.k = "none" THEN Zero
    ELSE LET s0 == strip(py_str(x))
         IN  IF s0 \in ZeroTexts THEN Zero
             ELSE LET f == py_float(remove_char(s0, "$"))
                  IN  IF f.ok THEN [raised |-> FALSE, kind |-> f.kind, v |-> f.v]
                      ELSE Zero

\* to_number(x): whether it raised, and the float it returned (kind
\* "finite" with the value v in mills, or "nan", "inf", "-inf")
to_number(x) ==
    IF x.k = "none" THEN Zero
    ELSE LET s0 == strip(py_str(x))
         IN  IF s0 \in ZeroTexts THEN Zero
             ELSE LET f == py_float(remove_char(remove_char(s0, "$"), ","))
                  IN  IF f.ok THEN [raised |-> FALSE, kind |-> f.kind, v |-> f.v]
                      ELSE Zero

\* the parser on its own: one value in, one call
MaxNumLen == 3

NumChars == {"$", ",", "5", ".", "-", " "}

RECURSIVE TextsUpTo(_, _)
TextsUpTo(chars, n) ==
    IF n = 0 THEN {<<>>}
    ELSE LET shorter == TextsUpTo(chars, n - 1)
         IN  shorter \cup {<<c>> \o t : c \in chars, t \in {u \in shorter : Len(u) = n - 1}}

NumSamples ==
    { <<"$", "1", ",", "2", "3", "4", ".", "5", "0">>,
      <<"n", "a", "n">>, <<"N", "a", "N">>, <<"N", "o", "n", "e">>, <<"n", "o", "n", "e">>,
      <<EmDash>>, <<" ", EmDash, " ">>, <<EmDash, EmDash>>,
      <<"i", "n", "f">>, <<"-", "I", "n", "f", "i", "n", "i", "t", "y">>,
      <<"$", "n", "a", "n">>, <<"+", "n", "a", "n">>, <<"i", "n", "f", "i", "n", "i">>,
      <<"1", "e", "3">>, <<"1", "E", "+", "2">>, <<"2", "5", "e", "-", "1">>, <<"1", "e">>, <<"e", "5">>,
      <<"1", "_", "0", "0", "0">>, <<"1", "_", "_", "0">>, <<"_", "1">>,
      <<"a", "b", "c">>, <<"1", "2", "a">>, <<"1", " ", "2">>, <<" ", "1", "2", " ">>,
      <<"+", ".", "5">>, <<"-", "$", "7", ".", "2", "5">>, <<"(", "5", ")">>,
      <<"1", "2", ",", "5", "0", "0">>, <<"0", ".", "0", "0", "1">>, <<"+", "-", "5">> }

NumberInputs ==
    {None, NaN} \cup {Str(t) : t \in TextsUpTo(NumChars, MaxNumLen) \cup NumSamples}

NumInit ==
    /\ n_x \in NumberInputs
    /\ n_out = 0
    /\ n_pc = "ready"
    /\ PartIdle /\ ClsIdle /\ AggIdle /\ MiscIdle /\ RunIdle

ToNumber ==
    /\ n_pc = "ready"
    /\ n_out' = to_number(n_x)
    /\ n_pc' = "done"
    /\ UNCHANGED <<n_x, notNum>>

NumNext == ToNumber

SpecNumber == NumInit /\ [][NumNext]_vars

\* C19: the tolerant numeric parser never raises and returns a number for
\* every input: blank, "-", the em dash, "nan", "None" and absent values give
\* 0.0, text that is no float literal gives 0.0, and "$" and "," are
\* stripped, so "$1,234.50" gives 1234.50.
C19_NeverRaisesReturnsNumber ==
    n_pc = "done" =>
        /\ ~n_out.raised
        /\ n_out.kind = "finite"
        /\ (n_x.k # "str" \/ strip(n_x.s) \in ZeroTexts) => n_out.v = 0
        /\ (n_x.k = "str" /\ ~py_float(remove_char(remove_char(n_x.s, "$"), ",")).ok)
               => n_out.v = 0
        /\ n_x = Str(<<"$", "1", ",", "2", "3", "4", ".", "5", "0">>) => n_out.v = 1234500

\* Long division: k more decimal digits of the quotient q with remainder r
RECURSIVE LongDiv(_, _, _, _)
LongDiv(q, r, d, k) ==
    IF k = 0 THEN [q |-> q, r |-> r]
    ELSE LongDiv(q * 10 + ((r * 10) \div d), (r * 10) % d, d, k - 1)

\* round(num / den, places) as an integer number of 10^-places, ties to even
RoundedQuotient(num, den, places) ==
    LET n == IF den > 0 THEN num ELSE 0 - num
        d == IF den > 0 THEN den ELSE 0 - den
        x == LongDiv(n \div d, n % d, d, places)
    IN  IF 2 * x.r < d THEN x.q
        ELSE IF 2 * x.r > d THEN x.q + 1
        ELSE IF x.q % 2 = 0 THEN x.q ELSE x.q + 1

(***************************************************************************)
(* Binary floating point (IEEE 754 binary64), as far as the sums of the    *)
(* aggregation need it. A magnitude is a whole number of 2^-FracBits,      *)
(* written as NumLimbs digits of LimbBits bits each, the lowest first.     *)
(* Every float between 2^-10 and 2^(NumLimbs * LimbBits - FracBits) in     *)
(* magnitude, and every sum or difference of such floats, is such a number.*)
(***************************************************************************)

\* Bits of the significand of a float.
MantissaBits == 53

\* Bits kept below the binary point; bits of a digit; digits kept.
FracBits == 64
LimbBits == 15
NumLimbs == 6

RECURSIVE Pow2(_)
Pow2(n) == IF n = 0 THEN 1 ELSE 2 * Pow2(n - 1)

LimbBase == Pow2(LimbBits)
LimbIdx == 1 .. NumLimbs
ZeroLimbs == [i \in LimbIdx |-> 0]

\* 2^k as a magnitude of 2^-(FracBits) units, for a bit position k >= 0
BitLimbs(k) ==
    [i \in LimbIdx |-> IF i = (k \div LimbBits) + 1 THEN Pow2(k % LimbBits) ELSE 0]

\* bit k (from 0) of the magnitude b
BitAt(b, k) == (b[(k \div LimbBits) + 1] \div Pow2(k % LimbBits)) % 2

\* the bits of b below bit k, and b without them
LowBits(b, k) ==
    [i \in LimbIdx |->
        IF i * LimbBits <= k THEN b[i]
        ELSE IF (i - 1) * LimbBits >= k THEN 0
        ELSE b[i] % Pow2(k - (i - 1) * LimbBits)]

HighBits(b, k) == [i \in LimbIdx |-> b[i] - LowBits(b, k)[i]]

\* the natural number n < 2^25 as a magnitude
NatLimbs(n) ==
    Only({[i \in LimbIdx |->
              IF i = lo THEN (n * Pow2(FracBits % LimbBits)) % LimbBase
              ELSE IF i = lo + 1 THEN (n * Pow2(FracBits % LimbBits)) \div LimbBase
              ELSE 0] :
            lo \in {(FracBits \div LimbBits) + 1}})

\* b \div k and b % k for a natural k <= 1000, a digit at a time from the top
RECURSIVE DivScan(_, _, _, _, _)
DivScan(b, k, i, rem, q) ==
    IF i = 0 THEN [q |-> q, rem |-> rem]
    ELSE Only({DivScan(b, k, i - 1, t % k, [q EXCEPT ![i] = t \div k]) :
                 t \in {rem * LimbBase + b[i]}})

\* a + b, a digit at a time from the bottom
RECURSIVE AddScan(_, _, _, _, _)
AddScan(a, b, i, carry, res) ==
    IF i > NumLimbs THEN res
    ELSE Only({AddScan(a, b, i + 1, t \div LimbBase, [res EXCEPT ![i] = t % LimbBase]) :
                 t \in {a[i] + b[i] + carry}})

\* a - b for a >= b
RECURSIVE SubScan(_, _, _, _, _)
SubScan(a, b, i, borrow, res) ==
    IF i > NumLimbs THEN res
    ELSE Only({SubScan(a, b, i + 1, IF t < 0 THEN 1 ELSE 0,
                       [res EXCEPT ![i] = t % LimbBase]) :
                 t \in {a[i] - b[i] - borrow}})

LimbsLess(a, b) ==
    \E i \in LimbIdx : a[i] < b[i] /\ \A j \in (i + 1) .. NumLimbs : a[j] = b[j]

\* the number of bits of b: the position of its highest 1, from 1
BitLength(b) ==
    IF b = ZeroLimbs THEN 0
    ELSE Only({(i - 1) * LimbBits
                 + (CHOOSE n \in 1 .. LimbBits : Pow2(n - 1) <= b[i] /\ b[i] < Pow2(n)) :
                 i \in {j \in LimbIdx : b[j] # 0 /\ \A h \in (j + 1) .. NumLimbs : b[h] = 0}})

\* the magnitude b, plus a nonzero part below the last bit when sticky,
\* rounded to MantissaBits significant bits, ties to the even significand
RoundToFloat(b, sticky) ==
    Only({IF drop <= 0 THEN b
          ELSE IF /\ BitAt(b, drop - 1) = 1
                  /\ \/ sticky
                     \/ LowBits(b, drop - 1) # ZeroLimbs
                     \/ BitAt(b, drop) = 1
               THEN AddScan(HighBits(b, drop), BitLimbs(drop), 1, 0, ZeroLimbs)
               ELSE HighBits(b, drop) :
            drop \in {BitLength(b) - MantissaBits}})

FloatZero == [neg |-> FALSE, mag |-> ZeroLimbs]

\* m thousandths as a quotient and remainder of 2^-FracBits
MillsLimbs(m) ==
    Only({DivScan(n, 1000, NumLimbs, 0, ZeroLimbs) :
            n \in {NatLimbs(IF m < 0 THEN 0 - m ELSE m)}})

\* float(s) for the decimal text of m thousandths: the nearest float
float_of_mills(m) ==
    Only({[neg |-> m < 0, mag |-> RoundToFloat(d.q, d.rem > 0)] :
            d \in {MillsLimbs(m)}})

\* the magnitude of x + y for floats of opposite signs, |x| > |y|
float_diff(big, small) ==
    Only({RoundToFloat(d, FALSE) : d \in {SubScan(big, small, 1, 0, ZeroLimbs)}})

\* x + y
float_add(x, y) ==
    IF x.neg = y.neg
    THEN [neg |-> x.neg,
          mag |-> Only({RoundToFloat(s, FALSE) :
                          s \in {AddScan(x.mag, y.mag, 1, 0, ZeroLimbs)}})]
    ELSE IF x.mag = y.mag THEN FloatZero
    ELSE IF LimbsLess(x.mag, y.mag)
    THEN [neg |-> y.neg, mag |-> float_diff(y.mag, x.mag)]
    ELSE [neg |-> x.neg, mag |-> float_diff(x.mag, y.mag)]

\* x - y
float_sub(x, y) == float_add(x, [neg |-> ~y.neg, mag |-> y.mag])

\* ndarray.sum() of the floats of vals (thousandths), in the order of vals
RECURSIVE plain_sum(_, _)
plain_sum(vals, acc) ==
    IF vals = <<>> THEN acc
    ELSE Only({plain_sum(Tail(vals), s) :
                 s \in {float_add(acc, float_of_mills(Head(vals)))}})

\* groupby(...).sum() of one group: compensated (Kahan) summation
RECURSIVE kahan_sum(_, _, _)
kahan_sum(vals, sumx, compensation) ==
    IF vals = <<>> THEN sumx
    ELSE Only({Only({Only({kahan_sum(Tail(vals), t, c) :
                             c \in {float_sub(float_sub(t, sumx), y)}}) :
                       t \in {float_add(sumx, y)}}) :
                 y \in {float_sub(float_of_mills(Head(vals)), compensation)}})

\* -1, 0 or 1 as the float x is below, at or above m thousandths
float_side(x, m) ==
    IF x.mag = ZeroLimbs THEN (IF m > 0 THEN 0 - 1 ELSE IF m < 0 THEN 1 ELSE 0)
    ELSE IF x.neg # (m < 0) THEN (IF x.neg THEN 0 - 1 ELSE 1)
    ELSE Only({Only({IF x.neg THEN 0 - a ELSE a :
                       a \in {IF x.mag = d.q THEN (IF d.rem > 0 THEN 0 - 1 ELSE 0)
                              ELSE IF LimbsLess(x.mag, d.q) THEN 0 - 1 ELSE 1}}) :
                 d \in {MillsLimbs(m)}})

\* round(x, 2) of an amount in mills: the amount in cents
round2(mills) == RoundHalfEven(mills, 10)

RECURSIVE SumSeq(_)
SumSeq(q) == IF q = <<>> THEN 0 ELSE Head(q) + SumSeq(Tail(q))

\* round(x, 2) and format(x, ",.2f") of a float sum x, in cents: mills is
\* the sum of the decimal amounts and side tells where x lies from it. The
\* float is within a rounding error of the decimal sum, so the side decides
\* only when the decimal sum is half a cent.
round_sum(mills, side) ==
    IF mills % 10 = 5 /\ side # 0
    THEN (mills \div 10) + (IF side > 0 THEN 1 ELSE 0)
    ELSE round2(mills)

\* the values of vals at the positions where keep holds, in order
pick(vals, keep(_)) ==
    Only({[j \in 1 .. Len(idx) |-> vals[idx[j]]] :
            idx \in {SelectSeq([i \in 1 .. Len(vals) |-> i], keep)}})

\* where Series.sum() of vals lies from the sum of the decimal amounts
plain_side(vals) ==
    IF SumSeq(vals) % 10 = 5
    THEN float_side(plain_sum(vals, FloatZero), SumSeq(vals)) ELSE 0

\* where groupby(...).sum() of the group vals lies from the decimal sum
kahan_side(vals) ==
    IF SumSeq(vals) % 10 = 5
    THEN float_side(kahan_sum(vals, FloatZero, FloatZero), SumSeq(vals)) ELSE 0

(***************************************************************************)
(* Weekly aggregation                                                      *)
(*                                                                         *)
(* A frame is the CSV as read: header, a sequence of column titles, and    *)
(* rows, each a sequence of cells in header order.                         *)
(***************************************************************************)

N_referring_platform == <<"r", "e", "f", "e", "r", "r", "i", "n", "g", " ", "p", "l", "a", "t", "f", "o", "r", "m">>
N_channel == <<"c", "h", "a", "n", "n", "e", "l">>
N_type == <<"t", "y", "p", "e">>
N_sales == <<"s", "a", "l", "e", "s">>
N_cost == <<"c", "o", "s", "t">>

\* colmap.get(name_lower, None): the position of the (last) column whose
\* title, lower-cased and trimmed, is name_lower; 0 stands for None.
col(header, name_lower) ==
    LET hits == {i \in 1 .. Len(header) : strip(lower(header[i])) = name_lower}
    IN  IF hits = {} THEN 0 ELSE CHOOSE i \in hits : \A j \in hits : j <= i

\* df.dropna(how="all")
dropna_all(rows) ==
    LET keep(r) == \E i \in 1 .. Len(r) : r[i].k = "str"
    IN  SelectSeq(rows, keep)

\* df[df.astype(str).apply(lambda x: x.str.strip()).ne("").any(axis=1)]
drop_blank_text(rows) ==
    LET keep(r) == \E i \in 1 .. Len(r) : strip(py_str(r[i])) # <<>>
    IN  SelectSeq(rows, keep)

\* groupby("_bucket").agg(sum): for each bucket that has rows, the sum of
\* vals over its rows
group_sum(buckets, vals) ==
    [b \in {buckets[i] : i \in 1 .. Len(buckets)} |->
        SumSeq([i \in 1 .. Len(vals) |-> IF buckets[i] = b THEN vals[i] ELSE 0])]

\* d.get(key, 0.0)
\* groupby("_bucket").agg(sum): where the float sum of each bucket lies from
\* its decimal sum
group_side(buckets, vals) ==
    [b \in {buckets[i] : i \in 1 .. Len(buckets)} |->
        kahan_side(pick(vals, LAMBDA i : buckets[i] = b))]

dict_get(d, key) == IF key \in DOMAIN d THEN d[key] ELSE 0

\* mutant: the total leaves out the rows of the catch-all bucket
column_sum_without_misc(buckets, vals) ==
    SumSeq([i \in 1 .. Len(vals) |-> IF buckets[i] = OtherMisc THEN 0 ELSE vals[i]])

\* mutant: the total adds up the rows of the three buckets that have a cost
\* field
column_sum_cost_buckets(buckets, vals) ==
    SumSeq([i \in 1 .. Len(vals) |->
               IF buckets[i] \in {GoogleAdsPaid, PriveyEmail, AttentiveSMS}
               THEN vals[i] ELSE 0])

\* float(df["_sales"].sum()), float(df["_cost"].sum())
column_sum(buckets, vals) == SumSeq(vals)

\* mutant: the margin is computed without the zero-sales guard's value
gpm_of_cost_ratio(tot_sales, tot_cost) ==
    IF tot_sales # 0 THEN RoundedQuotient(tot_cost, tot_sales, 4) ELSE 0

\* round(((tot_sales - tot_cost) / tot_sales) if tot_sales else 0.0, 4),
\* in 1/10000
gpm_of(tot_sales, tot_cost) ==
    IF tot_sales # 0
    THEN RoundedQuotient(tot_sales - tot_cost, tot_sales, 4)
    ELSE 0

\* mutant: the Google ads cost field reads the Google organic group
google_cost_key_organic == GoogleOrganic

\* the group the "Google ads (Cost)" field reads
google_cost_key == GoogleAdsPaid

\* grouped.head(12): the number of sub-groups the notes are taken from
MiscHead == 12

\* f"{str(r[ch_col]).strip()} ({str(r[ty_col]).strip()})"
misc_name(ch, ty) ==
    strip(py_str(ch)) \o <<" ", "(">> \o strip(py_str(ty)) \o <<")">>

\* df[df["_bucket"] == "Other Channel Sales MISC"], of rows that carry their
\* channel and type cells, their bucket and their parsed sales
other_df(rows) == SelectSeq(rows, LAMBDA r : r.bucket = OtherMisc)

\* the characters of the texts drawn, in code point order
CodePoints ==
    <<"\t", "\n", " ", "$", "(", ")", "+", ",", "-", ".">> \o Digits \o UpperChars
        \o <<"_">> \o LowerChars \o <<EmDash>>

CodeOf(c) == CHOOSE i \in 1 .. Len(CodePoints) : CodePoints[i] = c

\* a < b for str: the first differing character decides, a proper prefix
\* comes first
RECURSIVE str_less(_, _)
str_less(a, b) ==
    IF b = <<>> THEN FALSE
    ELSE IF a = <<>> THEN TRUE
    ELSE IF Head(a) = Head(b) THEN str_less(Tail(a), Tail(b))
    ELSE CodeOf(Head(a)) < CodeOf(Head(b))

\* mutant: groupby(sort=False): the groups in the order their names first
\* appear in the rows
misc_groups_unsorted(rows) ==
    LET names == [i \in 1 .. Len(rows) |-> misc_name(rows[i].ch, rows[i].ty)]
        firsts == SelectSeq([i \in 1 .. Len(rows) |-> i],
                            LAMBDA i : \A j \in 1 .. (i - 1) : names[j] # names[i])
    IN  [g \in 1 .. Len(firsts) |->
            [name |-> names[firsts[g]],
             sales |-> SumSeq([i \in 1 .. Len(rows) |->
                          IF names[i] = names[firsts[g]] THEN rows[i].sales ELSE 0]),
             side |-> kahan_side(pick([i \in 1 .. Len(rows) |-> rows[i].sales],
                                      LAMBDA i : names[i] = names[firsts[g]]))]]

\* tmp.groupby("_name", as_index=False)["_sales"].sum(): one entry per name,
\* in the order of the names, with the sum of the sales of its rows
misc_groups(rows) ==
    LET names == [i \in 1 .. Len(rows) |-> misc_name(rows[i].ch, rows[i].ty)]
        keys == {names[i] : i \in 1 .. Len(rows)}
        rank(k) == 1 + Cardinality({q \in keys : str_less(q, k)})
    IN  [g \in 1 .. Cardinality(keys) |->
            Only({[name |-> k,
                   sales |-> SumSeq([i \in 1 .. Len(rows) |->
                                IF names[i] = k THEN rows[i].sales ELSE 0]),
                   side |-> kahan_side(pick([i \in 1 .. Len(rows) |-> rows[i].sales],
                                            LAMBDA i : names[i] = k))] :
                     k \in {q \in keys : rank(q) = g}})]

\* The orders sort_values may leave groups of equal sales in: its default
\* sort is not stable, so the order among them is a choice.
TieOrders == {"forward", "reverse"}

\* the groups laid out by a strict order `before` on their positions
sorted_by(groups, before(_, _)) ==
    LET n == Len(groups)
        pos(i) == 1 + Cardinality({j \in 1 .. n : before(j, i)})
    IN  [k \in 1 .. n |-> groups[CHOOSE i \in 1 .. n : pos(i) = k]]

\* mutant: the groups are sorted by ascending sales
sort_values_asc(groups, order) ==
    LET before(j, i) ==
            \/ groups[j].sales < groups[i].sales
            \/ /\ groups[j].sales = groups[i].sales
               /\ IF order = "forward" THEN j < i ELSE j > i
    IN  sorted_by(groups, before)

\* .sort_values("_sales", ascending=False)
sort_values_desc(groups, order) ==
    LET before(j, i) ==
            \/ groups[j].sales > groups[i].sales
            \/ /\ groups[j].sales = groups[i].sales
               /\ IF order = "forward" THEN j < i ELSE j > i
    IN  sorted_by(groups, before)

\* .head(n)
head(seq, n) == SubSeq(seq, 1, Min(n, Len(seq)))

\* f"{r['_name']} ${float(r['_sales']):,.2f}": the name and the amount in cents
misc_part(g) == [name |-> g.name, amount |-> round_sum(g.sales, g.side)]

\* build_misc_notes(df_other, ch_col, ty_col): the parts that " | ".join
\* puts together; no part stands for the empty string
build_misc_notes(df_other, order) ==
    IF df_other = <<>> THEN <<>>
    ELSE LET grouped == sort_values_desc(misc_groups(df_other), order)
             kept == SelectSeq(head(grouped, MiscHead), LAMBDA g : g.sales > 0)
         IN  [i \in 1 .. Len(kept) |-> misc_part(kept[i])]

\* mutant: the month is taken from the day of the run
month_source_today(start, today) == today

\* start.strftime("%B"): the day whose month names the row
month_source(start, today) == start

ordered_cols ==
    <<"Month", "Dates/ Week", DirectOrganic, GoogleAdsPaid, GoogleOrganic,
      AttentiveSMS, PriveyEmail, ActiveCampaign, OtherMisc, "Tot Sales",
      "Google ads (Cost)", "Privey Email Marketing (Cost)",
      "Attentive SMS (Cost)", "Total Cost", "GPM", "MISC.", "Upload_Date",
      "Range_Start", "Range_End", "Country">>

NoRow == [c \in {} |-> 0]

\* summarize_channel_csv_to_weekly_row(csv_path, start, end), run on the
\* day `today` for the configured country. Amounts are in cents, GPM in
\* 1/10000. raised is "none" or the exception that ends the call.
\* emptyApplyRaises: whether assigning the result of df.apply(axis=1) on a
\* frame with no rows raises (it does where apply returns a frame).
\* order: the order sort_values leaves equal sales in.
summarize_channel_csv_to_weekly_row(frame, start, end, today, country, emptyApplyRaises, order) ==
    LET df == drop_blank_text(dropna_all(frame.rows))
        rp_col == col(frame.header, N_referring_platform)
        ch_col == col(frame.header, N_channel)
        ty_col == col(frame.header, N_type)
        sales_col == col(frame.header, N_sales)
        cost_col == col(frame.header, N_cost)
        sales == [i \in 1 .. Len(df) |-> to_number(df[i][sales_col]).v]
        cost == [i \in 1 .. Len(df) |->
                    IF cost_col # 0 THEN to_number(df[i][cost_col]).v ELSE 0]
        bucket == [i \in 1 .. Len(df) |->
                    bucket_row(df[i][rp_col], df[i][ch_col], df[i][ty_col])]
        tagged == [i \in 1 .. Len(df) |->
                     [ch |-> df[i][ch_col], ty |-> df[i][ty_col],
                      bucket |-> bucket[i], sales |-> sales[i]]]
        misc_notes == build_misc_notes(other_df(tagged), order)
        sales_by == group_sum(bucket, sales)
        cost_by == group_sum(bucket, cost)
        tot_sales == column_sum(bucket, sales)
        tot_cost == column_sum(bucket, cost)
        sales_side == group_side(bucket, sales)
        cost_side == group_side(bucket, cost)
        row == [c \in {ordered_cols[i] : i \in 1 .. Len(ordered_cols)} |->
                 CASE c = "Month" -> <<"month of", month_source(start, today)>>
                   [] c = "Dates/ Week" -> <<start, end>>
                   [] c \in Buckets -> round_sum(dict_get(sales_by, c), dict_get(sales_side, c))
                   [] c = "Tot Sales" -> round_sum(tot_sales, plain_side(sales))
                   [] c = "Google ads (Cost)" -> round_sum(dict_get(cost_by, google_cost_key),
                                                      dict_get(cost_side, google_cost_key))
                   [] c = "Privey Email Marketing (Cost)" -> round_sum(dict_get(cost_by, PriveyEmail),
                                                      dict_get(cost_side, PriveyEmail))
                   [] c = "Attentive SMS (Cost)" -> round_sum(dict_get(cost_by, AttentiveSMS),
                                                      dict_get(cost_side, AttentiveSMS))
                   [] c = "Total Cost" -> round_sum(tot_cost, plain_side(cost))
                   [] c = "GPM" -> gpm_of(tot_sales, tot_cost)
                   [] c = "MISC." -> misc_notes
                   [] c = "Upload_Date" -> today
                   [] c = "Range_Start" -> start
                   [] c = "Range_End" -> end
                   [] c = "Country" -> country]
    IN  IF rp_col = 0 \/ ch_col = 0 \/ ty_col = 0 \/ sales_col = 0
        THEN [raised |-> "ValueError: CSV missing required columns", row |-> NoRow]
        ELSE IF Len(df) = 0 /\ emptyApplyRaises
        THEN [raised |-> "ValueError: cannot set a frame as a column", row |-> NoRow]
        ELSE [raised |-> "none", row |-> row]

(***************************************************************************)
(* SpecWeeks: the generator iter_weeks stepped one yield at a time         *)
(***************************************************************************)

PartStart ==
    /\ p_since \in 1 .. MaxDay
    /\ p_until \in 1 .. MaxDay
    /\ p_ws \in WeekStartDays
    /\ p_cur = p_since
    /\ p_out = <<>>
    /\ p_pc = "loop"

\* one pass of `while cur <= until`: yield (cur, end), advance cur
IterWeeksYield ==
    /\ p_pc = "loop"
    /\ p_cur <= p_until
    /\ LET end == iter_end(p_cur, p_until, p_ws)
       IN  /\ p_out' = Append(p_out, <<p_cur, end>>)
           /\ p_cur' = iter_advance(end)
    /\ UNCHANGED <<p_since, p_until, p_ws, p_pc>>
    /\ UNCHANGED notPart

\* the loop condition fails: the generator is exhausted
IterWeeksStop ==
    /\ p_pc = "loop"
    /\ ~(p_cur <= p_until)
    /\ p_pc' = "done"
    /\ UNCHANGED <<p_since, p_until, p_ws, p_cur, p_out>>
    /\ UNCHANGED notPart

PartNext == IterWeeksYield \/ IterWeeksStop

PartInit == PartStart /\ ClsIdle /\ AggIdle /\ MiscIdle /\ NumIdle /\ RunIdle

SpecWeeks == PartInit /\ [][PartNext]_vars

\* the generator is driven to exhaustion (list(iter_weeks(...)), the for loop
\* of run): a pass of the loop that can be made is made
SpecWeeksDriven == SpecWeeks /\ WF_vars(PartNext)

(***************************************************************************)
(* SpecClassify: bucket_row applied to one (referring platform, channel,   *)
(* type) triple                                                            *)
(***************************************************************************)

\* The cells a field is drawn from, each with the word it stands for once
\* trimmed and compared case-insensitively (absent and null stand for "").
CellSamples ==
    { [v |-> None, word |-> ""],
      [v |-> NaN, word |-> ""],
      [v |-> Str(<<>>), word |-> ""],
      [v |-> Str(<<" ", " ">>), word |-> ""],
      [v |-> Str(<<"D", "i", "r", "e", "c", "t">>), word |-> "direct"],
      [v |-> Str(<<" ", "d", "i", "r", "e", "c", "t", " ">>), word |-> "direct"],
      [v |-> Str(<<"g", "o", "o", "g", "l", "e">>), word |-> "google"],
      [v |-> Str(<<"G", "O", "O", "G", "L", "E", " ">>), word |-> "google"],
      [v |-> Str(<<"p", "a", "i", "d">>), word |-> "paid"],
      [v |-> Str(<<" ", "P", "a", "i", "d">>), word |-> "paid"],
      [v |-> Str(<<"o", "r", "g", "a", "n", "i", "c">>), word |-> "organic"],
      [v |-> Str(<<"A", "t", "t", "e", "n", "t", "i", "v", "e">>), word |-> "attentive"],
      [v |-> Str(<<"p", "r", "i", "v", "y">>), word |-> "privy"],
      [v |-> Str(<<"A", "c", "t", "i", "v", "e", "C", "a", "m", "p", "a", "i", "g", "n">>), word |-> "activecampaign"],
      [v |-> Str(<<"e", "m", "a", "i", "l">>), word |-> "email"],
      [v |-> Str(<<"N", "o", "n", "e">>), word |-> "none"],
      [v |-> Str(<<"n", "a", "n">>), word |-> "nan"] }

ClsStart ==
    /\ c_rp \in CellSamples
    /\ c_ch \in CellSamples
    /\ c_ty \in CellSamples
    /\ c_bucket = ""
    /\ c_pc = "call"

\* bucket = bucket_row(r[rp_col], r[ch_col], r[ty_col])
Classify ==
    /\ c_pc = "call"
    /\ c_bucket' = bucket_row(c_rp.v, c_ch.v, c_ty.v)
    /\ c_pc' = "done"
    /\ UNCHANGED <<c_rp, c_ch, c_ty>>
    /\ UNCHANGED notCls

ClsNext == Classify

ClsInit == ClsStart /\ PartIdle /\ AggIdle /\ MiscIdle /\ NumIdle /\ RunIdle

SpecClassify == ClsInit /\ [][ClsNext]_vars

\* The seven-rule precedence table of the classifier, on trimmed,
\* case-folded words.
RuleMatches(i, rp, ch, ty) ==
    CASE i = 1 -> ch = "direct" \/ rp = "direct"
      [] i = 2 -> ch = "google" /\ ty = "paid"
      [] i = 3 -> ch = "google" /\ ty = "organic"
      [] i = 4 -> ch = "attentive" \/ rp = "attentive"
      [] i = 5 -> ch = "privy" \/ rp = "privy"
      [] i = 6 -> ch = "activecampaign" \/ rp = "activecampaign"
      [] i = 7 -> TRUE

RuleBucket ==
    <<DirectOrganic, GoogleAdsPaid, GoogleOrganic, AttentiveSMS, PriveyEmail,
      ActiveCampaign, OtherMisc>>

FirstMatchingRule(rp, ch, ty) ==
    CHOOSE i \in 1 .. 7 :
        /\ RuleMatches(i, rp, ch, ty)
        /\ \A j \in 1 .. i - 1 : ~RuleMatches(j, rp, ch, ty)

\* C7: for every (referring_platform, channel, type), absent and null values
\* included, bucket_row returns one of the seven buckets, namely the bucket of
\* the first matching rule of the precedence table; a row whose channel or
\* referring platform is direct is DirectOrganic whatever its other fields,
\* and classify("Direct", "email", "organic") = DirectOrganic.
C7_FirstMatchWins ==
    c_pc = "done" =>
        /\ c_bucket \in Buckets
        /\ c_bucket = RuleBucket[FirstMatchingRule(c_rp.word, c_ch.word, c_ty.word)]
        /\ (c_ch.word = "direct" \/ c_rp.word = "direct" => c_bucket = DirectOrganic)
        /\ (/\ c_rp.v = Str(<<"D", "i", "r", "e", "c", "t">>)
            /\ c_ch.v = Str(<<"e", "m", "a", "i", "l">>)
            /\ c_ty.v = Str(<<"o", "r", "g", "a", "n", "i", "c">>)
            => c_bucket = DirectOrganic)

\* C7 witness: a triple matching both the direct rule and the google+paid
\* rule has been classified, and the direct rule won.
C7_Witness ==
    /\ c_pc = "done"
    /\ c_rp.word = "direct" /\ c_ch.word = "google" /\ c_ty.word = "paid"
    /\ c_rp.v.k = "str" /\ c_rp.v.s # T_direct
    /\ c_bucket = DirectOrganic

(***************************************************************************)
(* SpecAgg: summarize_channel_csv_to_weekly_row applied to one export      *)
(***************************************************************************)

\* Longest export drawn, in data rows.
MaxRows == 3

\* The day the aggregation runs on (datetime.now()), a day ordinal.
FirstRunDay == 20

RowGooglePaid ==
    [rp |-> NaN, ch |-> Str(<<"g", "o", "o", "g", "l", "e">>),
     ty |-> Str(<<"p", "a", "i", "d">>),
     sales |-> Str(<<"$", "1", "0", "0", ".", "0", "0">>), cost |-> Str(<<"$", "2", "0", ".", "0", "0">>)]

RowGoogleOrganic ==
    [rp |-> NaN, ch |-> Str(<<"g", "o", "o", "g", "l", "e">>),
     ty |-> Str(<<"o", "r", "g", "a", "n", "i", "c">>),
     sales |-> Str(<<"5", "0">>), cost |-> NaN]

RowDirect ==
    [rp |-> NaN, ch |-> Str(<<"d", "i", "r", "e", "c", "t">>),
     ty |-> NaN,
     sales |-> Str(<<"2", "5">>), cost |-> NaN]

RowDirectEmail ==
    [rp |-> Str(<<"D", "i", "r", "e", "c", "t">>), ch |-> Str(<<"e", "m", "a", "i", "l">>),
     ty |-> Str(<<"o", "r", "g", "a", "n", "i", "c">>),
     sales |-> Str(<<"1", ",", "2", "3", "4", ".", "5", "0">>), cost |-> Str(<<"1", "0">>)]

RowAttentive ==
    [rp |-> Str(<<" ", "A", "t", "t", "e", "n", "t", "i", "v", "e">>), ch |-> Str(<<"s", "m", "s">>),
     ty |-> NaN,
     sales |-> Str(<<"0", ".", "0", "0", "4">>), cost |-> Str(<<"5", ".", "0", "0", "6">>)]

RowPrivy ==
    [rp |-> Str(<<"p", "r", "i", "v", "y">>), ch |-> Str(<<"E", "m", "a", "i", "l">>),
     ty |-> NaN,
     sales |-> Str(<<"0", ".", "0", "0", "4">>), cost |-> Str(<<"2", ".", "5", "0", "6">>)]

RowActiveCampaign ==
    [rp |-> NaN, ch |-> Str(<<"A", "c", "t", "i", "v", "e", "C", "a", "m", "p", "a", "i", "g", "n">>),
     ty |-> NaN,
     sales |-> Str(<<"-", "5">>), cost |-> NaN]

RowFacebook ==
    [rp |-> Str(<<"f", "a", "c", "e", "b", "o", "o", "k">>), ch |-> Str(<<"s", "o", "c", "i", "a", "l">>),
     ty |-> Str(<<"p", "a", "i", "d">>),
     sales |-> Str(<<"3", "0">>), cost |-> Str(<<"7">>)]

RowGoogleNoType ==
    [rp |-> NaN, ch |-> Str(<<"G", "o", "o", "g", "l", "e">>),
     ty |-> NaN,
     sales |-> Str(<<EmDash>>), cost |-> Str(<<"1", "5">>)]

RowBlank ==
    [rp |-> NaN, ch |-> NaN,
     ty |-> NaN,
     sales |-> NaN, cost |-> NaN]

RowSpaces ==
    [rp |-> Str(<<" ">>), ch |-> Str(<<" ">>),
     ty |-> Str(<<" ">>),
     sales |-> Str(<<" ">>), cost |-> Str(<<" ">>)]

RowSamples ==
    {RowGooglePaid, RowGoogleOrganic, RowDirect, RowDirectEmail,
     RowAttentive, RowPrivy, RowActiveCampaign, RowFacebook,
     RowGoogleNoType, RowBlank,
     RowSpaces}

\* The column layouts an export is drawn with: the title as written in the
\* file and the field it carries.
HeaderFull ==
    <<[title |-> <<"R", "e", "f", "e", "r", "r", "i", "n", "g", " ", "p", "l", "a", "t", "f", "o", "r", "m">>, field |-> "rp"],
      [title |-> <<"C", "h", "a", "n", "n", "e", "l">>, field |-> "ch"],
      [title |-> <<"T", "y", "p", "e">>, field |-> "ty"],
      [title |-> <<"S", "a", "l", "e", "s">>, field |-> "sales"],
      [title |-> <<"C", "o", "s", "t">>, field |-> "cost"]>>

HeaderNoCost ==
    <<[title |-> <<"C", "H", "A", "N", "N", "E", "L">>, field |-> "ch"],
      [title |-> <<" ", "r", "e", "f", "e", "r", "r", "i", "n", "g", " ", "p", "l", "a", "t", "f", "o", "r", "m", " ">>, field |-> "rp"],
      [title |-> <<"s", "a", "l", "e", "s">>, field |-> "sales"],
      [title |-> <<"T", "y", "p", "e", " ">>, field |-> "ty"]>>

HeaderNoType ==
    <<[title |-> <<"R", "e", "f", "e", "r", "r", "i", "n", "g", " ", "p", "l", "a", "t", "f", "o", "r", "m">>, field |-> "rp"],
      [title |-> <<"C", "h", "a", "n", "n", "e", "l">>, field |-> "ch"],
      [title |-> <<"S", "a", "l", "e", "s">>, field |-> "sales"],
      [title |-> <<"C", "o", "s", "t">>, field |-> "cost"]>>

HeaderSamples == {HeaderFull, HeaderNoCost, HeaderNoType}

\* pd.read_csv: the frame of a file with layout h and data rows rs
read_csv(h, rs) ==
    [header |-> [i \in 1 .. Len(h) |-> h[i].title],
     rows |-> [n \in 1 .. Len(rs) |-> [i \in 1 .. Len(h) |-> rs[n][h[i].field]]]]

RowSeqs(n) == UNION {[1 .. m -> RowSamples] : m \in 0 .. n}

AggStart ==
    /\ a_layout \in HeaderSamples
    /\ a_rows \in RowSeqs(MaxRows)
    /\ a_start = 8 /\ a_end = 14
    /\ a_today = FirstRunDay
    /\ a_result = [raised |-> "none", row |-> NoRow]
    /\ a_pc = "call"
    /\ a_env = <<>> /\ a_first = <<>>

\* summary_df = summarize_channel_csv_to_weekly_row(raw_path, start, end)
Summarize ==
    /\ a_pc = "call"
    /\ \E emptyApplyRaises \in BOOLEAN, order \in TieOrders :
          a_result' = summarize_channel_csv_to_weekly_row(
                          read_csv(a_layout, a_rows), a_start, a_end, a_today,
                          "US", emptyApplyRaises, order)
    /\ a_pc' = "done"
    /\ UNCHANGED <<a_layout, a_rows, a_start, a_end, a_today, a_env, a_first>>
    /\ UNCHANGED notAgg

AggNext == Summarize

AggInit == AggStart /\ PartIdle /\ ClsIdle /\ MiscIdle /\ NumIdle /\ RunIdle

SpecAgg == AggInit /\ [][AggNext]_vars

(***************************************************************************)
(* SpecRerun: summarize_channel_csv_to_weekly_row called twice on the same *)
(* export and week                                                         *)
(***************************************************************************)

\* Longest export drawn for the two calls, in data rows.
MaxRerunRows == 2

\* Days that may pass between the two calls.
MaxDaysLater == 1

RerunStart ==
    /\ a_layout \in HeaderSamples
    /\ a_rows \in RowSeqs(MaxRerunRows)
    /\ a_start = 8 /\ a_end = 14
    /\ a_today = FirstRunDay
    /\ a_result = [raised |-> "none", row |-> NoRow]
    /\ a_pc = "first"
    /\ a_env = <<>> /\ a_first = <<>>

\* the first call; the installed pandas decides what an empty frame does and
\* how equal sales are ordered
RerunFirst ==
    /\ a_pc = "first"
    /\ \E emptyApplyRaises \in BOOLEAN, order \in TieOrders :
          /\ a_env' = [emptyApplyRaises |-> emptyApplyRaises, order |-> order]
          /\ a_result' = summarize_channel_csv_to_weekly_row(
                            read_csv(a_layout, a_rows), a_start, a_end, a_today,
                            "US", emptyApplyRaises, order)
    /\ a_pc' = "second"
    /\ UNCHANGED <<a_layout, a_rows, a_start, a_end, a_today, a_first>>
    /\ UNCHANGED notAgg

\* the second call, on the same file and week with the same installation,
\* the same day or later: datetime.now() is read again
RerunSecond ==
    /\ a_pc = "second"
    /\ a_first' = a_result
    /\ \E later \in 0 .. MaxDaysLater :
          /\ a_today' = a_today + later
          /\ a_result' = summarize_channel_csv_to_weekly_row(
                            read_csv(a_layout, a_rows), a_start, a_end, a_today',
                            "US", a_env.emptyApplyRaises, a_env.order)
    /\ a_pc' = "redone"
    /\ UNCHANGED <<a_layout, a_rows, a_start, a_end, a_env>>
    /\ UNCHANGED notAgg

RerunNext == RerunFirst \/ RerunSecond

RerunInit == RerunStart /\ PartIdle /\ ClsIdle /\ MiscIdle /\ NumIdle /\ RunIdle

SpecRerun == RerunInit /\ [][RerunNext]_vars

\* C12 (as stated): the second call on the same export and week returns a
\* row equal to the first in every field, the provenance fields included.
C12_RerunIdentical ==
    a_pc = "redone" => a_result = a_first

SummaryFields == {ordered_cols[i] : i \in 1 .. Len(ordered_cols)}

\* C12: the second call on the same export and week ends as the first did
\* and returns a row equal to the first in every field but Upload_Date,
\* which is the day of each call: the rows are identical exactly when both
\* calls run on the same day.
C12_RerunSameButUploadDate ==
    a_pc = "redone"
    => /\ a_result.raised = a_first.raised
       /\ a_result.raised = "none"
             => /\ \A c \in SummaryFields \ {"Upload_Date"} :
                      a_result.row[c] = a_first.row[c]
                /\ a_first.row["Upload_Date"] = FirstRunDay
                /\ a_result.row["Upload_Date"] = a_today
                /\ (a_result = a_first) <=> (a_today = FirstRunDay)

C12_Witness ==
    /\ a_pc = "redone" /\ a_result.raised = "none"
    /\ a_today # FirstRunDay
    /\ Len(a_rows) >= 2
    /\ a_result.row["Tot Sales"] = a_first.row["Tot Sales"]
    /\ a_result.row["Tot Sales"] > 0
    /\ a_result # a_first

(***************************************************************************)
(* SpecPermute: summarize_channel_csv_to_weekly_row called on an export    *)
(* and on the same rows in another order                                   *)
(***************************************************************************)

\* Longest export drawn for the two orders, in data rows.
MaxPermRows == 3

RowTikTok ==
    [rp |-> NaN, ch |-> Str(<<"t", "i", "k", "t", "o", "k">>),
     ty |-> Str(<<"p", "a", "i", "d">>),
     sales |-> Str(<<"1", "7", ".", "0", "9">>), cost |-> NaN]

RowBing ==
    [rp |-> NaN, ch |-> Str(<<"b", "i", "n", "g">>),
     ty |-> Str(<<"p", "a", "i", "d">>),
     sales |-> Str(<<"1", ".", "1", "1", "1">>), cost |-> NaN]

RowPinterest ==
    [rp |-> NaN, ch |-> Str(<<"p", "i", "n", "t", "e", "r", "e", "s", "t">>),
     ty |-> Str(<<"o", "r", "g", "a", "n", "i", "c">>),
     sales |-> Str(<<"7", "3", ".", "4", "9", "4">>), cost |-> NaN]

RowYoutube ==
    [rp |-> NaN, ch |-> Str(<<"y", "o", "u", "t", "u", "b", "e">>),
     ty |-> Str(<<"p", "a", "i", "d">>),
     sales |-> Str(<<"3", "0">>), cost |-> NaN]

PermRowSamples ==
    {RowTikTok, RowBing, RowPinterest, RowYoutube, RowFacebook, RowGooglePaid}

PermLayouts == {HeaderFull, HeaderNoCost}

\* the orders of n rows
RowOrders(n) ==
    {p \in [1 .. n -> 1 .. n] : \A i, j \in 1 .. n : p[i] = p[j] => i = j}

PermStart ==
    /\ a_layout \in PermLayouts
    /\ a_rows \in UNION {[1 .. m -> PermRowSamples] : m \in 0 .. MaxPermRows}
    /\ a_start = 8 /\ a_end = 14
    /\ a_today = FirstRunDay
    /\ a_result = [raised |-> "none", row |-> NoRow]
    /\ a_pc = "first"
    /\ a_env = <<>> /\ a_first = <<>>

\* the call on the export as written; a_env keeps the installation and the
\* rows of this call
PermFirst ==
    /\ a_pc = "first"
    /\ \E emptyApplyRaises \in BOOLEAN, order \in TieOrders :
          /\ a_env' = [emptyApplyRaises |-> emptyApplyRaises, order |-> order,
                       rows |-> a_rows]
          /\ a_result' = summarize_channel_csv_to_weekly_row(
                            read_csv(a_layout, a_rows), a_start, a_end, a_today,
                            "US", emptyApplyRaises, order)
    /\ a_pc' = "second"
    /\ UNCHANGED <<a_layout, a_rows, a_start, a_end, a_today, a_first>>
    /\ UNCHANGED notAgg

\* the call on the same rows in another order, with the same installation
\* on the same day
PermSecond ==
    /\ a_pc = "second"
    /\ a_first' = a_result
    /\ \E p \in RowOrders(Len(a_rows)) :
          /\ a_rows' = [i \in 1 .. Len(a_rows) |-> a_rows[p[i]]]
          /\ a_result' = summarize_channel_csv_to_weekly_row(
                            read_csv(a_layout, a_rows'), a_start, a_end, a_today,
                            "US", a_env.emptyApplyRaises, a_env.order)
    /\ a_pc' = "permuted"
    /\ UNCHANGED <<a_layout, a_start, a_end, a_today, a_env>>
    /\ UNCHANGED notAgg

PermNext == PermFirst \/ PermSecond

PermInit == PermStart /\ PartIdle /\ ClsIdle /\ MiscIdle /\ NumIdle /\ RunIdle

SpecPermute == PermInit /\ [][PermNext]_vars

\* C27: the row computed from an export does not depend on the order of its
\* data rows: the same rows in any other order give the same bucket sales
\* and costs, the same totals, the same GPM and the same MISC. notes.
C27_RowOrderIrrelevant ==
    a_pc = "permuted"
    => /\ a_result.raised = a_first.raised
       /\ a_result.raised = "none"
             => \A c \in SummaryFields : a_result.row[c] = a_first.row[c]

\* the amounts of every row have at most two decimals
TwoDecimalAmounts ==
    \A i \in 1 .. Len(a_rows) : a_rows[i] \notin {RowBing, RowPinterest}

\* C27, for exports whose amounts have at most two decimals
C27_RowOrderIrrelevantCents ==
    (a_pc = "permuted" /\ TwoDecimalAmounts)
    => /\ a_result.raised = a_first.raised
       /\ a_result.raised = "none"
             => \A c \in SummaryFields : a_result.row[c] = a_first.row[c]

C27_Witness ==
    /\ a_pc = "permuted" /\ TwoDecimalAmounts
    /\ a_result.raised = "none"
    /\ Len(a_rows) = 3 /\ a_rows # a_env.rows
    /\ a_rows[1] = RowYoutube /\ a_rows[2] = RowFacebook
    /\ Len(a_result.row["MISC."]) = 2
    /\ a_result.row["Tot Sales"] > 0

(***************************************************************************)
(* SpecMisc: build_misc_notes applied to the rows of one export            *)
(***************************************************************************)

\* Most generated sub-groups, and most hand-written rows, of a drawn export.
MaxFill == 14
MaxFree == 2

FillTags ==
    <<"a", "b", "c", "d", "e", "f", "g", "h", "i", "j",
      "k", "l", "m", "n", "o", "p", "q", "r", "s", "t">>

\* sales of the generated sub-groups, in mills: base + i * step for the i-th
FillBases == {-300, 0, 1500}
FillSteps == {-100, 0, 100}

\* the i-th generated row: a sub-group of its own in the catch-all bucket
FillRow(i, base, step) ==
    [ch |-> Str(<<"m", FillTags[i]>>), ty |-> NaN, bucket |-> OtherMisc,
     sales |-> base + i * step]

MiscRowSamples ==
    {[ch |-> Str(<<"s", "o", "c", "i", "a", "l">>), ty |-> Str(<<"p", "a", "i", "d">>),
      bucket |-> OtherMisc, sales |-> 30000],
     [ch |-> Str(<<" ", "s", "o", "c", "i", "a", "l", " ">>), ty |-> Str(<<"p", "a", "i", "d", " ">>),
      bucket |-> OtherMisc, sales |-> 4],
     [ch |-> Str(<<"m", "a">>), ty |-> NaN, bucket |-> OtherMisc, sales |-> -2000],
     [ch |-> Str(<<"d", "i", "r", "e", "c", "t">>), ty |-> NaN,
      bucket |-> DirectOrganic, sales |-> 99000]}

MiscStart ==
    /\ \E free \in UNION {[1 .. k -> MiscRowSamples] : k \in 0 .. MaxFree},
          n \in 0 .. MaxFill, base \in FillBases, step \in FillSteps :
          m_rows = free \o [i \in 1 .. n |-> FillRow(i, base, step)]
    /\ m_notes = <<>>
    /\ m_pc = "call"

\* misc_notes = build_misc_notes(other_df, ch_col, ty_col)
MiscNotes ==
    /\ m_pc = "call"
    /\ \E order \in TieOrders :
          m_notes' = build_misc_notes(other_df(m_rows), order)
    /\ m_pc' = "done"
    /\ UNCHANGED m_rows
    /\ UNCHANGED notMisc

MiscNext == MiscNotes

MiscInit == MiscStart /\ PartIdle /\ ClsIdle /\ AggIdle /\ NumIdle /\ RunIdle

SpecMisc == MiscInit /\ [][MiscNext]_vars

\* the (channel, type) sub-groups of the catch-all rows and their summed sales
MiscRowsOf == SelectSeq(m_rows, LAMBDA r : r.bucket = OtherMisc)

SubGroups == {misc_name(MiscRowsOf[i].ch, MiscRowsOf[i].ty) : i \in 1 .. Len(MiscRowsOf)}

SubGroupSales(name) ==
    SumSeq([i \in 1 .. Len(MiscRowsOf) |->
              IF misc_name(MiscRowsOf[i].ch, MiscRowsOf[i].ty) = name
              THEN MiscRowsOf[i].sales ELSE 0])

PositiveSubGroups == {name \in SubGroups : SubGroupSales(name) > 0}

NotedNames == {m_notes[i].name : i \in 1 .. Len(m_notes)}

\* C11: misc_notes has at most 12 entries, each a distinct catch-all
\* sub-group with strictly positive summed sales, in non-increasing order of
\* those sums; it holds exactly the min(12, number of positive sub-groups)
\* largest positive sub-groups, and is empty when there is none.
C11_MiscNotesTopPositive ==
    m_pc = "done"
    => /\ Len(m_notes) <= 12
       /\ \A i \in 1 .. Len(m_notes) :
             /\ m_notes[i].name \in PositiveSubGroups
             /\ m_notes[i].amount = round2(SubGroupSales(m_notes[i].name))
       /\ \A i, j \in 1 .. Len(m_notes) :
             i < j => /\ m_notes[i].name # m_notes[j].name
                      /\ SubGroupSales(m_notes[i].name) >= SubGroupSales(m_notes[j].name)
       /\ Len(m_notes) = Min(12, Cardinality(PositiveSubGroups))
       /\ \A name \in PositiveSubGroups \ NotedNames :
             \A i \in 1 .. Len(m_notes) :
                SubGroupSales(name) <= SubGroupSales(m_notes[i].name)
       /\ PositiveSubGroups = {} => m_notes = <<>>

\* more than 12 positive sub-groups among non-positive ones: 12 are listed
C11_Witness ==
    /\ m_pc = "done"
    /\ Cardinality(PositiveSubGroups) > 12
    /\ Cardinality(SubGroups) > Cardinality(PositiveSubGroups)
    /\ Len(m_notes) = 12

(***************************************************************************)
(* Spec: one run of new_shpify_report.run                                  *)
(***************************************************************************)

\* WEEK_START = int(os.getenv("WEEK_START", "0"))
WEEK_START == 0

\* The day ordinal of SINCE in the runs drawn, and the most week ranges a
\* run covers.
RunSince == 3
MaxWeeks == 3

\* The rows of the spreadsheet tab: the header row (df.columns), the summary
\* row of a week, a row left by an earlier run, and a row of another layout
\* whose column A is empty.
Header == [kind |-> "header", start |-> 0, end |-> 0]
SummaryRowOf(w) == [kind |-> "row", start |-> w[1], end |-> w[2]]
OldRow == [kind |-> "old", start |-> 0, end |-> 0]
ForeignRow == [kind |-> "foreign", start |-> 0, end |-> 0]

TabSamples == {<<>>, <<Header, OldRow>>, <<ForeignRow, OldRow>>}

UntilSamples == {RunSince - 1} \cup {RunSince + 6 * k : k \in 0 .. MaxWeeks - 1}

ReportConfigs ==
    {c \in [prog : {"report"}, slug : BOOLEAN, since : {RunSince},
            until : UntilSamples, mode : {"append", "overwrite"},
            upload : BOOLEAN, auto_login : BOOLEAN] :
        ~c.upload => c.mode = "append"}

\* mutant: the range check is missing
range_ok_unchecked(since_d, until_d) == TRUE

\* not (until_d < since_d)
range_ok(since_d, until_d) == ~(until_d < since_d)

\* mutant: the login and the save run whether or not the file exists
login_needed_always(exists) == TRUE

\* if not STATE_FILE.exists()
login_needed(exists) == ~exists

\* mutant: the flag is never cleared
overwrite_first_kept == overwrite_first

\* overwrite_first = False, after an upload
overwrite_first_after_upload == FALSE

\* mutant: every upload of the run is an append
upload_mode_always_append(first) == "append"

\* mode = "overwrite" if overwrite_first else "append"
upload_mode(first) == IF first THEN "overwrite" ELSE "append"

\* values().get(range="A1:A1"): whether cell A1 of the tab is empty
first_cell_empty(t) == t = <<>> \/ t[1].kind = "foreign"

\* values().update(range="A1") with the given rows: they replace the first rows
update_at_A1(t, rows) == rows \o SubSeq(t, Len(rows) + 1, Len(t))

\* upload_df_to_sheet(df, spreadsheet_id, sheet_name, mode) on tab t for the
\* one-row frame `row`. outcome: "ok"; "fail_before" (no SHEET_ID, no
\* credentials, a failed request before any write); "fail_mid" (overwrite:
\* the update fails after the clear).
upload_df_to_sheet(t, row, mode, outcome) ==
    IF outcome = "fail_before" THEN [tab |-> t, raised |-> TRUE]
    ELSE IF mode = "overwrite"
    THEN IF outcome = "fail_mid"
         THEN [tab |-> <<>>, raised |-> TRUE]
         ELSE [tab |-> <<Header, row>>, raised |-> FALSE]
    ELSE IF first_cell_empty(t)
         THEN [tab |-> update_at_A1(t, <<Header, row>>), raised |-> FALSE]
         ELSE [tab |-> t \o <<row>>, raised |-> FALSE]

UploadOutcomes(mode) ==
    IF mode = "overwrite" THEN {"ok", "fail_before", "fail_mid"} ELSE {"ok", "fail_before"}

\* click_export_flow: the locators of each step, in the order they are tried
Candidates(step) ==
    CASE step = "open" ->
            <<"button:has-text('Export')", "button[aria-label='Export']",
              "[role='button']:has-text('Export')">>
      [] step = "overflow" ->
            <<"button[aria-label='More actions']", "button[aria-haspopup='menu']">>
      [] step = "text_export" -> <<"text=Export">>
      [] step = "csv" ->
            <<"text=CSV", "button:has-text('CSV')", "[role='menuitem']:has-text('CSV')",
              "label:has-text('CSV')">>
      [] step = "confirm" ->
            <<"button:has-text('Export')", "button[aria-label='Export']", "text=Export">>

\* mutant: the flow confirms right after the Export control, without the
\* CSV step
after_click_skips_csv(step) ==
    CASE step = "open" -> "confirm"
      [] step = "overflow" -> "text_export"
      [] step = "text_export" -> "confirm"
      [] step = "csv" -> "confirm"
      [] step = "confirm" -> "returned"

\* where the flow goes once a click of the step has succeeded (break)
after_click(step) ==
    CASE step = "open" -> "csv"
      [] step = "overflow" -> "text_export"
      [] step = "text_export" -> "csv"
      [] step = "csv" -> "confirm"
      [] step = "confirm" -> "returned"

\* mutant: a step whose locators all fail ends the flow with an error
after_exhausted_strict(step) ==
    CASE step = "open" -> "overflow"
      [] step = "overflow" -> "text_export"
      [] step = "text_export" -> "raised"
      [] step = "csv" -> "raised"
      [] step = "confirm" -> "raised"

\* where the flow goes once every locator of the step has failed
after_exhausted(step) ==
    CASE step = "open" -> "overflow"
      [] step = "overflow" -> "text_export"
      [] step = "text_export" -> "raised"
      [] step = "csv" -> "confirm"
      [] step = "confirm" -> "returned"

\* mutant: the row is not handed to the sheet inside the loop
after_save_summary_next_week(upload) == "loop"

\* if UPLOAD_TO_SHEET: the upload follows the week's summary, inside the loop
after_save_summary(upload) == IF upload THEN "upload" ELSE "loop"

\* the store's admin page
AdminUrl == "https://admin.shopify.com/store/{STORE_SLUG}"

\* ymd(d) = d.isoformat(); day 1 is Monday 2024-01-01
ymd(d) ==
    <<"2", "0", "2", "4", "-", "0", "1", "-", Digits[(d \div 10) + 1], Digits[(d % 10) + 1]>>

\* mutant: the report is asked for a single day
build_report_url_since_only(since_ymd, until_ymd, country) ==
    [path |-> "marketing/reports/channels", attributionModel |-> "last_click_non_direct",
     since |-> since_ymd, until |-> since_ymd, country |-> country]

\* build_report_url(store_slug, since_ymd, until_ymd, country): the path and
\* the query parameters of the address
build_report_url(since_ymd, until_ymd, country) ==
    [path |-> "marketing/reports/channels", attributionModel |-> "last_click_non_direct",
     since |-> since_ymd, until |-> until_ymd, country |-> country]

\* a click on an Export control has succeeded in this week's flow
ExportClicked ==
    \E i \in 1 .. Len(f_clicked) : f_clicked[i].step \in {"open", "text_export", "confirm"}

ReportStart ==
    /\ cfg \in ReportConfigs
    /\ state_file \in BOOLEAN
    /\ state_file_at_start = state_file
    /\ state_reads = 0 /\ state_writes = 0
    /\ browser = "none" /\ context = "none" /\ session = "none"
    /\ authenticated = FALSE
    /\ pc = "start" /\ exit = "running"
    /\ cur = 0 /\ week = <<0, 0>> /\ attempted = <<>>
    /\ f_step = "idle" /\ f_idx = 0 /\ f_tried = <<>> /\ f_clicked = <<>>
    /\ armed = FALSE
    /\ raw_files = <<>> /\ summary_files = <<>> /\ all_summary_rows = <<>>
    /\ combined = <<>>
    /\ overwrite_first = FALSE
    /\ tab \in (IF cfg.upload THEN TabSamples ELSE {<<>>})
    /\ sync_calls = <<>>
    /\ token \in (IF cfg.upload /\ tab = <<>> THEN BOOLEAN ELSE {TRUE})
    /\ prompts = <<>>
    /\ page_url = "about:blank"

InReport(at) == cfg.prog = "report" /\ pc = at

\* mutant: the exception leaves run() without passing the finally clause
Raise_past_finally(reason) == pc' = "exited" /\ exit' = reason

\* mutant: the exception is swallowed and the run goes on with the loop
Raise_swallowed(reason) == pc' = "loop" /\ UNCHANGED exit

\* an exception inside the try block of run: the finally clause runs next
Raise(reason) == pc' = "finally" /\ exit' = reason

\* run, up to the browser launch: the two configuration checks
CheckConfig ==
    /\ InReport("start")
    /\ IF ~cfg.slug
       THEN /\ pc' = "exited" /\ exit' = "ValueError: Missing SHOPIFY_STORE_SLUG"
            /\ UNCHANGED <<overwrite_first, cur>>
       ELSE IF ~range_ok(cfg.since, cfg.until)
       THEN /\ pc' = "exited" /\ exit' = "ValueError: UNTIL must be >= SINCE"
            /\ UNCHANGED <<overwrite_first, cur>>
       ELSE /\ overwrite_first' = (cfg.mode = "overwrite")
            /\ cur' = cfg.since
            /\ pc' = "launch" /\ UNCHANGED exit
    /\ UNCHANGED <<cfgV, sessV, week, attempted, flowV, fileV, tab, sync_calls>>
    /\ UNCHANGED <<waitV, notRun>>

\* browser = await p.chromium.launch(...)
Launch ==
    /\ InReport("launch")
    /\ browser' = "open"
    /\ pc' = "new_context"
    /\ UNCHANGED <<cfgV, state_file, state_reads, state_writes, context, session,
                   authenticated, exit, loopV, flowV, fileV, sheetV>>
    /\ UNCHANGED <<waitV, notRun>>

\* browser.new_context(...), with storage_state=STATE_FILE when it exists (the
\* stored session may have expired since), and context.new_page()
NewContext ==
    /\ InReport("new_context")
    /\ context' = "open"
    /\ IF state_file
       THEN /\ session' = "loaded"
            /\ state_reads' = state_reads + 1
            /\ authenticated' \in BOOLEAN
       ELSE /\ session' = "fresh"
            /\ authenticated' = FALSE
            /\ UNCHANGED state_reads
    /\ pc' = "goto_admin"
    /\ UNCHANGED <<cfgV, state_file, state_writes, browser, exit, loopV, flowV,
                   fileV, sheetV>>
    /\ UNCHANGED <<waitV, notRun>>

\* await page.goto(admin): it loads or times out
GotoAdmin ==
    /\ InReport("goto_admin")
    /\ \E ok \in BOOLEAN :
          IF ok
          THEN /\ pc' = IF login_needed(state_file) THEN "login" ELSE "loop"
               /\ page_url' = AdminUrl
               /\ UNCHANGED exit
          ELSE Raise("NavigationTimeout") /\ UNCHANGED page_url
    /\ UNCHANGED <<cfgV, sessV, loopV, flowV, fileV, sheetV>>
    /\ UNCHANGED <<token, prompts, notRun>>

\* await auto_login_shopify(page): returns once the admin UI is visible, raises
\* otherwise (missing credentials, a navigation or the final wait timing out)
AutoLogin ==
    /\ InReport("login")
    /\ cfg.auto_login
    /\ \E r \in {"ok", "fail", "otp"} :
          CASE r = "ok" -> /\ authenticated' = TRUE
                           /\ pc' = "save_state" /\ UNCHANGED exit
            [] r = "fail" -> /\ Raise("AuthenticationFailed")
                             /\ UNCHANGED authenticated
            [] r = "otp" -> /\ pc' = "otp_prompt"
                            /\ UNCHANGED <<exit, authenticated>>
    /\ UNCHANGED <<cfgV, state_file, state_reads, state_writes, browser, context,
                   session, loopV, flowV, fileV, sheetV>>
    /\ UNCHANGED <<waitV, notRun>>

\* auto_login_shopify: input("Enter Shopify 2FA code: ") returns (the 2FA
\* field showed and SHOPIFY_OTP is unset), then the wait for the admin UI
OtpAnswered ==
    /\ InReport("otp_prompt")
    /\ prompts' = Append(prompts, "otp")
    /\ \E ok \in BOOLEAN :
          IF ok
          THEN /\ authenticated' = TRUE
               /\ pc' = "save_state" /\ UNCHANGED exit
          ELSE /\ Raise("AuthenticationFailed")
               /\ UNCHANGED authenticated
    /\ UNCHANGED <<cfgV, state_file, state_reads, state_writes, browser, context,
                   session, loopV, flowV, fileV, sheetV>>
    /\ UNCHANGED <<token, page_url, notRun>>

\* input("Press Enter after Shopify login is complete... "): the operator
\* presses Enter, logged in or not
ManualLogin ==
    /\ InReport("login")
    /\ ~cfg.auto_login
    /\ authenticated' \in BOOLEAN
    /\ pc' = "save_state"
    /\ prompts' = Append(prompts, "login")
    /\ UNCHANGED <<cfgV, state_file, state_reads, state_writes, browser, context,
                   session, exit, loopV, flowV, fileV, sheetV>>
    /\ UNCHANGED <<token, page_url, notRun>>

\* await context.storage_state(path=str(STATE_FILE))
SaveState ==
    /\ InReport("save_state")
    /\ state_file' = TRUE
    /\ state_writes' = state_writes + 1
    /\ pc' = "loop"
    /\ UNCHANGED <<cfgV, state_reads, browser, context, session, authenticated,
                   exit, loopV, flowV, fileV, sheetV>>
    /\ UNCHANGED <<waitV, notRun>>

\* for start, end in iter_weeks(...): the generator yields the next range.
\* The try block that opens the loop body holds only `...`, which cannot
\* raise, so its except clause (continue) never runs.
ForNext ==
    /\ InReport("loop")
    /\ cur <= cfg.until
    /\ LET end == iter_end(cur, cfg.until, WEEK_START)
       IN  /\ week' = <<cur, end>>
           /\ attempted' = Append(attempted, <<cur, end>>)
           /\ cur' = iter_advance(end)
    /\ f_step' = "idle" /\ f_idx' = 0 /\ f_tried' = <<>> /\ f_clicked' = <<>>
    /\ armed' = FALSE
    /\ pc' = "goto_report"
    /\ UNCHANGED <<cfgV, sessV, exit, fileV, sheetV>>
    /\ UNCHANGED <<waitV, notRun>>

\* the generator is exhausted: the loop ends
ForDone ==
    /\ InReport("loop")
    /\ ~(cur <= cfg.until)
    /\ pc' = "combine"
    /\ UNCHANGED <<cfgV, sessV, exit, loopV, flowV, fileV, sheetV>>
    /\ UNCHANGED <<waitV, notRun>>

\* await page.goto(report_url), then `async with page.expect_download(...)`
\* is entered: the wait for the download is armed
GotoReport ==
    /\ InReport("goto_report")
    /\ \E ok \in BOOLEAN :
          IF ok
          THEN /\ page_url' = build_report_url(ymd(week[1]), ymd(week[2]), "US")
               /\ armed' = TRUE /\ f_step' = "wait"
               /\ pc' = "flow" /\ UNCHANGED exit
          ELSE /\ Raise("NavigationTimeout")
               /\ UNCHANGED <<armed, f_step, page_url>>
    /\ UNCHANGED <<cfgV, sessV, loopV, f_idx, f_tried, f_clicked, fileV, sheetV>>
    /\ UNCHANGED <<token, prompts, notRun>>

\* click_export_flow: await page.wait_for_selector("button", timeout=60000)
FlowWait ==
    /\ InReport("flow") /\ f_step = "wait"
    /\ \E ok \in BOOLEAN :
          IF ok
          THEN /\ f_step' = "open" /\ f_idx' = 1
               /\ UNCHANGED ctlV
          ELSE /\ f_step' = "raised" /\ UNCHANGED f_idx
               /\ Raise("UIElementNotFound")
    /\ UNCHANGED <<cfgV, sessV, loopV, f_tried, f_clicked, armed, fileV, sheetV>>
    /\ UNCHANGED <<waitV, notRun>>

\* click_export_flow: one `await page.click(sel, timeout=...)` of a for loop
\* over locators; the exception of a failed click is swallowed
FlowClick ==
    /\ InReport("flow") /\ f_step \in {"open", "overflow", "csv", "confirm"}
    /\ LET sel == Candidates(f_step)[f_idx]
       IN  \E ok \in BOOLEAN :
             /\ ok => authenticated
             /\ f_tried' = Append(f_tried, [step |-> f_step, sel |-> sel])
             /\ IF ok
                THEN /\ f_clicked' = Append(f_clicked, [step |-> f_step, sel |-> sel])
                     /\ f_step' = after_click(f_step)
                     /\ f_idx' = 1
                ELSE /\ UNCHANGED f_clicked
                     /\ IF f_idx < Len(Candidates(f_step))
                        THEN f_idx' = f_idx + 1 /\ UNCHANGED f_step
                        ELSE f_idx' = 1 /\ f_step' = after_exhausted(f_step)
    /\ UNCHANGED <<cfgV, sessV, ctlV, loopV, armed, fileV, sheetV>>
    /\ UNCHANGED <<waitV, notRun>>

\* click_export_flow: await page.click("text=Export", timeout=15000), outside
\* any try
FlowTextExport ==
    /\ InReport("flow") /\ f_step = "text_export"
    /\ LET sel == Candidates("text_export")[1]
       IN  \E ok \in BOOLEAN :
             /\ ok => authenticated
             /\ f_tried' = Append(f_tried, [step |-> f_step, sel |-> sel])
             /\ IF ok
                THEN /\ f_clicked' = Append(f_clicked, [step |-> f_step, sel |-> sel])
                     /\ f_step' = after_click(f_step)
                     /\ UNCHANGED ctlV
                ELSE /\ UNCHANGED f_clicked
                     /\ f_step' = after_exhausted(f_step)
                     /\ Raise("UIElementNotFound")
    /\ UNCHANGED <<cfgV, sessV, loopV, f_idx, armed, fileV, sheetV>>
    /\ UNCHANGED <<waitV, notRun>>

\* the flow has returned: leaving `async with page.expect_download` waits for
\* the download, which arrives only if an Export control was clicked
AwaitDownload ==
    /\ InReport("flow") /\ f_step = "returned"
    /\ \E arrived \in BOOLEAN :
          /\ arrived => ExportClicked
          /\ IF arrived
             THEN pc' = "save_raw" /\ UNCHANGED exit
             ELSE Raise("DownloadTimeout")
    /\ armed' = FALSE
    /\ UNCHANGED <<cfgV, sessV, loopV, f_step, f_idx, f_tried, f_clicked, fileV, sheetV>>
    /\ UNCHANGED <<waitV, notRun>>

\* await download.save_as(str(raw_path))
SaveRaw ==
    /\ InReport("save_raw")
    /\ raw_files' = Append(raw_files, week)
    /\ pc' = "summarize"
    /\ UNCHANGED <<cfgV, sessV, exit, loopV, flowV, summary_files, all_summary_rows,
                   combined, sheetV>>
    /\ UNCHANGED <<waitV, notRun>>

\* summary_df = summarize_channel_csv_to_weekly_row(raw_path, start, end): a
\* row, or the ValueError of an export without the required columns
SummarizeWeek ==
    /\ InReport("summarize")
    /\ \E ok \in BOOLEAN :
          IF ok
          THEN pc' = "save_summary" /\ UNCHANGED exit
          ELSE Raise("ValueError: CSV missing required columns")
    /\ UNCHANGED <<cfgV, sessV, loopV, flowV, fileV, sheetV>>
    /\ UNCHANGED <<waitV, notRun>>

\* summary_df.to_csv(summary_path); all_summary_rows.append(summary_df)
SaveSummary ==
    /\ InReport("save_summary")
    /\ summary_files' = Append(summary_files, week)
    /\ all_summary_rows' = Append(all_summary_rows, SummaryRowOf(week))
    /\ pc' = after_save_summary(cfg.upload)
    /\ UNCHANGED <<cfgV, sessV, exit, loopV, flowV, raw_files, combined, sheetV>>
    /\ UNCHANGED <<waitV, notRun>>

\* if UPLOAD_TO_SHEET: upload_df_to_sheet(summary_df, ..., mode=mode);
\* overwrite_first = False
Upload ==
    /\ InReport("upload")
    /\ LET mode == upload_mode(overwrite_first)
       IN  \E outcome \in UploadOutcomes(mode) :
             /\ ~token => outcome = "fail_before"
             /\ LET r == upload_df_to_sheet(tab, SummaryRowOf(week), mode, outcome)
                IN  /\ tab' = r.tab
                    /\ sync_calls' = Append(sync_calls,
                           [mode |-> mode, week |-> week, done |-> ~r.raised])
                    /\ IF r.raised
                       THEN Raise("SyncFailed") /\ UNCHANGED overwrite_first
                       ELSE /\ overwrite_first' = overwrite_first_after_upload
                            /\ pc' = "loop" /\ UNCHANGED exit
    /\ UNCHANGED <<cfgV, sessV, loopV, flowV, fileV>>
    /\ UNCHANGED <<waitV, notRun>>

\* get_sheets_service: no usable token and credentials.json is there:
\* flow.run_local_server(port=0) waits for the consent given in a browser
OAuthFlow ==
    /\ InReport("upload")
    /\ ~token
    /\ pc' = "oauth_consent"
    /\ UNCHANGED <<cfgV, sessV, exit, loopV, flowV, fileV, sheetV>>
    /\ UNCHANGED <<waitV, notRun>>

\* run_local_server returns the credentials; TOKEN_JSON.write_text(...)
ConsentGiven ==
    /\ InReport("oauth_consent")
    /\ token' = TRUE
    /\ prompts' = Append(prompts, "oauth")
    /\ pc' = "upload"
    /\ UNCHANGED <<cfgV, sessV, exit, loopV, flowV, fileV, sheetV>>
    /\ UNCHANGED <<page_url, notRun>>

\* if all_summary_rows: combined = pd.concat(...); combined.to_csv(...)
Combine ==
    /\ InReport("combine")
    /\ combined' = all_summary_rows
    /\ pc' = "finally"
    /\ UNCHANGED <<cfgV, sessV, exit, loopV, flowV, raw_files, summary_files,
                   all_summary_rows, sheetV>>
    /\ UNCHANGED <<waitV, notRun>>

\* finally: await context.close(); await browser.close(); then run returns,
\* or the exception goes on to asyncio.run
Finally ==
    /\ InReport("finally")
    /\ context' = "closed" /\ browser' = "closed"
    /\ pc' = "exited"
    /\ exit' = IF exit = "running" THEN "ok" ELSE exit
    /\ UNCHANGED <<cfgV, state_file, state_reads, state_writes, session,
                   authenticated, loopV, flowV, fileV, sheetV>>
    /\ UNCHANGED <<waitV, notRun>>

ReportNext ==
    \/ CheckConfig \/ Launch \/ NewContext \/ GotoAdmin \/ AutoLogin
    \/ OtpAnswered \/ ManualLogin \/ SaveState \/ ForNext \/ ForDone \/ GotoReport
    \/ FlowWait \/ FlowClick \/ FlowTextExport \/ AwaitDownload \/ SaveRaw
    \/ SummarizeWeek \/ SaveSummary \/ Upload \/ OAuthFlow \/ ConsentGiven
    \/ Combine \/ Finally

(***************************************************************************)
(* Spec: one run of playwright_runner.run_export                           *)
(***************************************************************************)

RunnerConfigs ==
    [prog : {"runner"}, slug : BOOLEAN, since : {RunSince}, until : {RunSince + 6},
     mode : {"append"}, upload : BOOLEAN, auto_login : {TRUE}]

\* The rows upload_csv_to_sheet writes: the raw CSV's header and data rows,
\* each with the Upload_Date column added.
RawHeader == [kind |-> "raw_header", start |-> 0, end |-> 0]
RawRowOf(w) == [kind |-> "raw", start |-> w[1], end |-> w[2]]

RunnerStart ==
    /\ cfg \in RunnerConfigs
    /\ state_file \in BOOLEAN
    /\ state_file_at_start = state_file
    /\ state_reads = 0 /\ state_writes = 0
    /\ browser = "none" /\ context = "none" /\ session = "none"
    /\ authenticated = FALSE
    /\ pc = "r_start" /\ exit = "running"
    /\ cur = 0 /\ week = <<cfg.since, cfg.until>> /\ attempted = <<>>
    /\ f_step = "idle" /\ f_idx = 0 /\ f_tried = <<>> /\ f_clicked = <<>>
    /\ armed = FALSE
    /\ raw_files = <<>> /\ summary_files = <<>> /\ all_summary_rows = <<>>
    /\ combined = <<>>
    /\ overwrite_first = FALSE
    /\ tab \in (IF cfg.upload THEN TabSamples ELSE {<<>>})
    /\ sync_calls = <<>>
    /\ token \in (IF cfg.upload /\ tab = <<>> THEN BOOLEAN ELSE {TRUE})
    /\ prompts = <<>>
    /\ page_url = "about:blank"

InRunner(at) == cfg.prog = "runner" /\ pc = at

\* if not STORE_SLUG: return 1
R_CheckConfig ==
    /\ InRunner("r_start")
    /\ IF ~cfg.slug
       THEN pc' = "exited" /\ exit' = "status 1"
       ELSE pc' = "r_launch" /\ UNCHANGED exit
    /\ UNCHANGED <<cfgV, sessV, loopV, flowV, fileV, sheetV>>
    /\ UNCHANGED <<waitV, notRun>>

\* browser = p.chromium.launch(headless=headless)
R_Launch ==
    /\ InRunner("r_launch")
    /\ browser' = "open"
    /\ pc' = "r_new_context"
    /\ UNCHANGED <<cfgV, state_file, state_reads, state_writes, context, session,
                   authenticated, exit, loopV, flowV, fileV, sheetV>>
    /\ UNCHANGED <<waitV, notRun>>

\* if STATE_FILE.exists(): the file is opened and parsed and the context is
\* created from it, or (on any exception) a fresh context is created; else a
\* fresh context
R_NewContext ==
    /\ InRunner("r_new_context")
    /\ context' = "open"
    /\ IF state_file
       THEN /\ state_reads' = state_reads + 1
            /\ \E loaded \in BOOLEAN :
                  IF loaded
                  THEN session' = "loaded" /\ authenticated' \in BOOLEAN
                  ELSE session' = "fresh" /\ authenticated' = FALSE
       ELSE /\ session' = "fresh"
            /\ authenticated' = FALSE
            /\ UNCHANGED state_reads
    /\ pc' = "r_goto_admin"
    /\ UNCHANGED <<cfgV, state_file, state_writes, browser, exit, loopV, flowV,
                   fileV, sheetV>>
    /\ UNCHANGED <<waitV, notRun>>

\* page.goto(admin) inside the try whose finally closes the browser
R_GotoAdmin ==
    /\ InRunner("r_goto_admin")
    /\ \E ok \in BOOLEAN :
          IF ok
          THEN /\ pc' = IF login_needed(state_file) THEN "r_login" ELSE "r_ui_wait"
               /\ page_url' = AdminUrl
               /\ UNCHANGED exit
          ELSE pc' = "r_finally" /\ exit' = "NavigationTimeout" /\ UNCHANGED page_url
    /\ UNCHANGED <<cfgV, sessV, loopV, flowV, fileV, sheetV>>
    /\ UNCHANGED <<token, prompts, notRun>>

\* the automated login: the forms are filled and submitted (nothing checks
\* that the login succeeded), or an exception sends the run to the manual
\* prompt
R_AutoLogin ==
    /\ InRunner("r_login")
    /\ \E r \in {"ok", "fail", "otp"} :
          CASE r = "ok" -> /\ authenticated' \in BOOLEAN /\ pc' = "r_save_state"
                           /\ session' = "login"
            [] r = "fail" -> UNCHANGED <<authenticated, session>> /\ pc' = "r_manual_login"
            [] r = "otp" -> UNCHANGED <<authenticated, session>> /\ pc' = "r_otp_prompt"
    /\ UNCHANGED <<cfgV, state_file, state_reads, state_writes, browser, context,
                   exit, loopV, flowV, fileV, sheetV>>
    /\ UNCHANGED <<waitV, notRun>>

\* input('Enter your Shopify 2FA code: ') returns; whatever the fill and the
\* Verify click do is swallowed by the inner try
R_OtpAnswered ==
    /\ InRunner("r_otp_prompt")
    /\ prompts' = Append(prompts, "otp")
    /\ authenticated' \in BOOLEAN
    /\ pc' = "r_save_state"
    /\ session' = "login"
    /\ UNCHANGED <<cfgV, state_file, state_reads, state_writes, browser, context,
                   exit, loopV, flowV, fileV, sheetV>>
    /\ UNCHANGED <<token, page_url, notRun>>

\* input('Press Enter after you have logged in...')
R_ManualLogin ==
    /\ InRunner("r_manual_login")
    /\ authenticated' \in BOOLEAN
    /\ pc' = "r_save_state"
    /\ session' = "login"
    /\ prompts' = Append(prompts, "login")
    /\ UNCHANGED <<cfgV, state_file, state_reads, state_writes, browser, context,
                   exit, loopV, flowV, fileV, sheetV>>
    /\ UNCHANGED <<token, page_url, notRun>>

\* try: context.storage_state(path=str(STATE_FILE)); a failure is logged
R_SaveState ==
    /\ InRunner("r_save_state")
    /\ \E ok \in BOOLEAN :
          IF ok
          THEN state_file' = TRUE /\ state_writes' = state_writes + 1
          ELSE UNCHANGED <<state_file, state_writes>>
    /\ pc' = "r_ui_wait"
    /\ UNCHANGED <<cfgV, state_reads, browser, context, session, authenticated,
                   exit, loopV, flowV, fileV, sheetV>>
    /\ UNCHANGED <<waitV, notRun>>

\* the wait for the admin UI: the selector, else the URL, else network idle,
\* whose timeout is not caught
R_UiWait ==
    /\ InRunner("r_ui_wait")
    /\ \E ok \in BOOLEAN :
          IF ok
          THEN pc' = "r_goto_report" /\ UNCHANGED exit
          ELSE pc' = "r_finally" /\ exit' = "NavigationTimeout"
    /\ UNCHANGED <<cfgV, sessV, loopV, flowV, fileV, sheetV>>
    /\ UNCHANGED <<waitV, notRun>>

\* page.goto(REPORT_URL, timeout=60000), then expect_download is entered
R_GotoReport ==
    /\ InRunner("r_goto_report")
    /\ attempted' = Append(attempted, week)
    /\ \E ok \in BOOLEAN :
          IF ok
          THEN /\ page_url' = build_report_url(ymd(week[1]), ymd(week[2]), "US")
               /\ armed' = TRUE /\ f_step' = "open" /\ f_idx' = 1
               /\ pc' = "r_export" /\ UNCHANGED exit
          ELSE /\ pc' = "r_finally" /\ exit' = "NavigationTimeout"
               /\ UNCHANGED <<armed, f_step, f_idx, page_url>>
    /\ UNCHANGED <<cfgV, sessV, cur, week, f_tried, f_clicked, fileV, sheetV>>
    /\ UNCHANGED <<token, prompts, notRun>>

\* page.click("button:has-text('Export')"), and on its failure the overflow
\* menu and Export again; an exception of the fallback ends the run with 2
R_ExportClick ==
    /\ InRunner("r_export") /\ f_step \in {"open", "overflow"}
    /\ \E ok \in BOOLEAN :
          /\ ok => authenticated
          /\ f_tried' = Append(f_tried, [step |-> f_step, sel |-> Candidates("open")[1]])
          /\ IF ok
             THEN /\ f_clicked' = Append(f_clicked, [step |-> f_step, sel |-> Candidates("open")[1]])
                  /\ f_step' = "returned"
                  /\ UNCHANGED ctlV
             ELSE /\ UNCHANGED f_clicked
                  /\ IF f_step = "open"
                     THEN f_step' = "overflow" /\ UNCHANGED ctlV
                     ELSE /\ f_step' = "raised"
                          /\ pc' = "r_finally" /\ exit' = "status 2"
    /\ UNCHANGED <<cfgV, sessV, loopV, f_idx, armed, fileV, sheetV>>
    /\ UNCHANGED <<waitV, notRun>>

\* download = dl_info.value; download.save_as(str(dest)); a timeout ends the
\* run with 2
R_AwaitDownload ==
    /\ InRunner("r_export") /\ f_step = "returned"
    /\ armed' = FALSE
    /\ \E arrived \in BOOLEAN :
          IF arrived
          THEN /\ raw_files' = Append(raw_files, week)
               /\ pc' = IF cfg.upload THEN "r_upload" ELSE "r_finally"
               /\ UNCHANGED exit
          ELSE /\ pc' = "r_finally" /\ exit' = "status 2"
               /\ UNCHANGED raw_files
    /\ UNCHANGED <<cfgV, sessV, loopV, f_step, f_idx, f_tried, f_clicked,
                   summary_files, all_summary_rows, combined, sheetV>>
    /\ UNCHANGED <<waitV, notRun>>

\* try: upload_csv_to_sheet(dest): values().update at A1 with the CSV's rows;
\* a failure is logged and alerted, and the run still returns 0
R_Upload ==
    /\ InRunner("r_upload")
    /\ \E ok \in BOOLEAN :
          /\ ok => token
          /\ tab' = IF ok THEN update_at_A1(tab, <<RawHeader, RawRowOf(week)>>) ELSE tab
          /\ sync_calls' = Append(sync_calls, [mode |-> "update", week |-> week, done |-> ok])
    /\ pc' = "r_finally"
    /\ UNCHANGED <<cfgV, sessV, exit, loopV, flowV, fileV, overwrite_first>>
    /\ UNCHANGED <<waitV, notRun>>

\* upload_csv_to_sheet: no usable token: flow.run_local_server(port=8080,
\* open_browser=True) waits for the consent given in a browser
R_OAuthFlow ==
    /\ InRunner("r_upload")
    /\ ~token
    /\ pc' = "r_oauth_consent"
    /\ UNCHANGED <<cfgV, sessV, exit, loopV, flowV, fileV, sheetV>>
    /\ UNCHANGED <<waitV, notRun>>

\* run_local_server returns the credentials; the token is saved
R_ConsentGiven ==
    /\ InRunner("r_oauth_consent")
    /\ token' = TRUE
    /\ prompts' = Append(prompts, "oauth")
    /\ pc' = "r_upload"
    /\ UNCHANGED <<cfgV, sessV, exit, loopV, flowV, fileV, sheetV>>
    /\ UNCHANGED <<page_url, notRun>>

\* finally: context.close(); browser.close(); then return 0, return 2 or the
\* exception
R_Finally ==
    /\ InRunner("r_finally")
    /\ context' = "closed" /\ browser' = "closed"
    /\ pc' = "exited"
    /\ exit' = IF exit = "running" THEN "status 0" ELSE exit
    /\ UNCHANGED <<cfgV, state_file, state_reads, state_writes, session,
                   authenticated, loopV, flowV, fileV, sheetV>>
    /\ UNCHANGED <<waitV, notRun>>

RunnerNext ==
    \/ R_CheckConfig \/ R_Launch \/ R_NewContext \/ R_GotoAdmin \/ R_AutoLogin
    \/ R_OtpAnswered \/ R_ManualLogin \/ R_SaveState \/ R_UiWait \/ R_GotoReport
    \/ R_ExportClick \/ R_AwaitDownload \/ R_Upload \/ R_OAuthFlow \/ R_ConsentGiven
    \/ R_Finally

RunInit == (ReportStart \/ RunnerStart) /\ PartIdle /\ ClsIdle /\ AggIdle /\ MiscIdle /\ NumIdle

Next == ReportNext \/ RunnerNext

Init == RunInit

Spec == Init /\ [][Next]_vars

(***************************************************************************)
(* Claims about a run                                                      *)
(***************************************************************************)

AllWeeks == iter_weeks(cfg.since, cfg.until, WEEK_START).weeks

AcquisitionFailures == {"NavigationTimeout", "UIElementNotFound", "DownloadTimeout"}

RowWeeks(rows) == [i \in 1 .. Len(rows) |-> <<rows[i].start, rows[i].end>>]

\* C1: in a run over the weeks of the partition, a week whose acquisition
\* fails (navigation, selector or download timeout) does not stop the run:
\* every week of the partition is attempted, and the combined output holds
\* exactly the summary rows of the weeks that succeeded, in order.
C1_FailedWeekDoesNotStopRun ==
    (cfg.prog = "report" /\ pc = "exited" /\ attempted # <<>>
        /\ exit \in AcquisitionFailures \cup {"ok"})
    => /\ attempted = AllWeeks
       /\ combined = all_summary_rows
       /\ RowWeeks(combined) = summary_files

\* C2: with upload enabled and mode overwrite, the uploads of a run are issued
\* for the summarised weeks in order, the first of them (and only the first)
\* as an overwrite and every later one as an append, and once an upload has
\* completed the tab's first row is the header and no other row is.
C2_OneOverwriteThenAppend ==
    (cfg.prog = "report" /\ cfg.upload /\ cfg.mode = "overwrite")
    => /\ Len(sync_calls) <= Len(all_summary_rows)
       /\ \A i \in 1 .. Len(sync_calls) :
             /\ (sync_calls[i].mode = "overwrite") <=> (i = 1)
             /\ sync_calls[i].mode \in {"overwrite", "append"}
             /\ sync_calls[i].week = RowWeeks(all_summary_rows)[i]
       /\ (\E i \in 1 .. Len(sync_calls) : sync_calls[i].done)
             => /\ tab # <<>> /\ tab[1] = Header
                /\ Cardinality({i \in 1 .. Len(tab) : tab[i] = Header}) = 1

C2_Witness ==
    /\ cfg.prog = "report" /\ cfg.upload /\ cfg.mode = "overwrite"
    /\ Len(sync_calls) >= 2
    /\ sync_calls[1].mode = "overwrite" /\ sync_calls[1].done
    /\ sync_calls[2].mode = "append" /\ sync_calls[2].done
    /\ Len(tab) = 3

\* C3: the session-state file is read at most once, and the read is over
\* before the first week is attempted; it is written at most once, only when
\* it was absent at the start, and never when it existed at the start.
C3_SessionFileOnce ==
    /\ state_reads <= 1
    /\ state_writes <= 1
    /\ state_writes = 1 => ~state_file_at_start
    /\ state_file_at_start => state_writes = 0
    /\ state_reads = 1 => state_file_at_start
    /\ attempted # <<>> => state_reads = (IF state_file_at_start THEN 1 ELSE 0)

C3_Witness ==
    /\ pc = "exited" /\ attempted # <<>>
    /\ ~state_file_at_start /\ state_writes = 1 /\ state_file

FlowSteps == {"open", "overflow", "text_export", "csv", "confirm"}

StepRank(step) ==
    CASE step = "open" -> 1
      [] step = "overflow" -> 2
      [] step = "text_export" -> 3
      [] step = "csv" -> 4
      [] step = "confirm" -> 5

OfStep(seq, step) == SelectSeq(seq, LAMBDA t : t.step = step)

Sels(seq) == [i \in 1 .. Len(seq) |-> seq[i].sel]

IsPrefix(a, b) == Len(a) <= Len(b) /\ \A i \in 1 .. Len(a) : a[i] = b[i]

\* every locator of the step has been tried and none has been clicked
Exhausted(step) ==
    /\ Len(OfStep(f_tried, step)) = Len(Candidates(step))
    /\ OfStep(f_clicked, step) = <<>>

\* C4 (as stated): a step of the export flow whose locators all fail ends
\* the week's acquisition with UIElementNotFound, and no later step is tried.
C4_ExhaustedStepFails ==
    cfg.prog = "report"
    => \A step \in {"text_export", "csv", "confirm"} :
          Exhausted(step)
          => /\ f_step = "raised" /\ exit = "UIElementNotFound"
             /\ \A i \in 1 .. Len(f_tried) : StepRank(f_tried[i].step) <= StepRank(step)

\* C4: in each step of the export flow the locators are tried in their listed
\* order and the first click that succeeds ends the step. The open step
\* (direct locators, then the overflow menu, then text=Export) ends the
\* acquisition with UIElementNotFound when all of it fails, and then no CSV or
\* confirm locator is tried; a CSV or confirm step whose locators all fail
\* does not fail the flow, which goes on to the next step and returns.
C4_FlowOrder ==
    cfg.prog = "report"
    => /\ \A step \in FlowSteps :
             /\ IsPrefix(Sels(OfStep(f_tried, step)), Candidates(step))
             /\ Len(OfStep(f_clicked, step)) <= 1
             /\ OfStep(f_clicked, step) # <<>>
                   => OfStep(f_tried, step)[Len(OfStep(f_tried, step))]
                         = OfStep(f_clicked, step)[1]
       /\ \A i, j \in 1 .. Len(f_tried) :
             i < j => StepRank(f_tried[i].step) <= StepRank(f_tried[j].step)
       /\ OfStep(f_clicked, "open") # <<>>
             => OfStep(f_tried, "overflow") = <<>> /\ OfStep(f_tried, "text_export") = <<>>
       /\ OfStep(f_tried, "text_export") # <<>>
             => Exhausted("open") /\ OfStep(f_tried, "overflow") # <<>>
       /\ Exhausted("text_export")
             => /\ f_step = "raised" /\ exit = "UIElementNotFound"
                /\ OfStep(f_tried, "csv") = <<>> /\ OfStep(f_tried, "confirm") = <<>>
       /\ Exhausted("csv") => f_step \in {"confirm", "returned"}
       /\ Exhausted("confirm") => f_step = "returned"
       /\ (f_step = "raised" /\ f_tried # <<>>) => Exhausted("text_export")

C4_Witness ==
    /\ cfg.prog = "report"
    /\ Exhausted("csv") /\ Exhausted("confirm")
    /\ OfStep(f_clicked, "text_export") # <<>>
    /\ pc = "save_raw"

InvalidConfig == ~cfg.slug \/ cfg.until < cfg.since

\* the run has ended on a configuration error and has touched nothing
EndsBeforeAnyWork ==
    /\ pc \in {"start", "exited"}
    /\ pc = "exited"
          => exit = (IF ~cfg.slug THEN "ValueError: Missing SHOPIFY_STORE_SLUG"
                     ELSE "ValueError: UNTIL must be >= SINCE")
    /\ browser = "none" /\ context = "none" /\ session = "none"
    /\ state_reads = 0 /\ state_writes = 0 /\ state_file = state_file_at_start
    /\ attempted = <<>> /\ raw_files = <<>> /\ summary_files = <<>>
    /\ sync_calls = <<>> /\ ~armed

\* C5 (as stated): with the store identifier absent or until < since the run
\* ends with an error before any work, and the partition of a range with
\* until < since fails as well.
C5_PartitionRaises ==
    (cfg.prog = "report" /\ InvalidConfig)
    => /\ EndsBeforeAnyWork
       /\ cfg.until < cfg.since
             => iter_weeks(cfg.since, cfg.until, WEEK_START).raised # "none"

\* C5: with the store identifier absent or until < since the run ends with a
\* ValueError before the browser is launched, before the session file is read
\* or written, before any week is acquired and before any sync call; the
\* partition of a range with until < since does not fail: it yields no range.
C5_InvalidConfigEndsRun ==
    (cfg.prog = "report" /\ InvalidConfig)
    => /\ EndsBeforeAnyWork
       /\ cfg.until < cfg.since
             => iter_weeks(cfg.since, cfg.until, WEEK_START)
                   = [raised |-> "none", weeks |-> <<>>]

C5_Witness ==
    /\ cfg.prog = "report" /\ cfg.slug /\ cfg.until < cfg.since
    /\ pc = "exited" /\ exit = "ValueError: UNTIL must be >= SINCE"
    /\ browser = "none"

\* the row of the week is being handed to the sheet (upload_df_to_sheet)
UploadingStates == {"upload", "oauth_consent"}

\* the week being processed is past its summary: its row is accumulated
AcquiringStates == {"goto_report", "flow", "save_raw", "summarize", "save_summary"}

\* C14: with upload enabled each week's summary row is handed to the sheet
\* as soon as it is accumulated, one call per row and in partition order:
\* while a week is being acquired every earlier row has been handed over,
\* and at any other point at most the row just accumulated is waiting; with
\* upload disabled no call is made.
C14_RowHandedBeforeNextWeek ==
    cfg.prog = "report"
    => /\ ~cfg.upload => sync_calls = <<>>
       /\ cfg.upload
             => /\ Len(sync_calls) <= Len(all_summary_rows)
                /\ \A i \in 1 .. Len(sync_calls) :
                      sync_calls[i].week = RowWeeks(all_summary_rows)[i]
                /\ IsPrefix(RowWeeks(all_summary_rows), AllWeeks)
                /\ pc \in UploadingStates => Len(sync_calls) = Len(all_summary_rows) - 1
                /\ pc \notin UploadingStates => Len(sync_calls) = Len(all_summary_rows)
                /\ pc \in AcquiringStates
                      => \A i \in 1 .. Len(sync_calls) : sync_calls[i].done

C14_Witness ==
    /\ cfg.prog = "report" /\ cfg.upload
    /\ pc = "flow" /\ Len(attempted) = 2
    /\ Len(sync_calls) = 1 /\ sync_calls[1].week = attempted[1]

\* C15: the raw CSV and the summary CSV of a week are on disk before its
\* sheet upload is attempted, and a failed upload neither discards them nor
\* stops the later weeks and the combined summary from being produced.
C15_SyncFailureKeepsArtifacts ==
    cfg.prog = "report"
    => /\ \A i \in 1 .. Len(sync_calls) :
             /\ \E k \in 1 .. Len(raw_files) : raw_files[k] = sync_calls[i].week
             /\ \E k \in 1 .. Len(summary_files) : summary_files[k] = sync_calls[i].week
       /\ (pc = "exited" /\ \E i \in 1 .. Len(sync_calls) : ~sync_calls[i].done)
             => /\ attempted = AllWeeks
                /\ combined = all_summary_rows /\ combined # <<>>

\* C16: a week whose export lacks a required column fails alone: no summary
\* row of it is accumulated or uploaded, and the run goes on to the weeks
\* after it.
C16_MissingColumnsFailsWeekOnly ==
    (cfg.prog = "report" /\ pc = "exited"
        /\ exit = "ValueError: CSV missing required columns")
    => /\ \A i \in 1 .. Len(all_summary_rows) :
             RowWeeks(all_summary_rows)[i] # week
       /\ \A i \in 1 .. Len(sync_calls) : sync_calls[i].week # week
       /\ attempted = AllWeeks

\* the login phase of the run is over
PastLogin ==
    pc \notin {"start", "launch", "new_context", "goto_admin", "login",
               "r_start", "r_launch", "r_new_context", "r_goto_admin", "r_login",
               "r_manual_login"}

WeekSaved ==
    cfg.prog = "report" /\ \E i \in 1 .. Len(raw_files) : raw_files[i] = week

\* the step of the flow has been gone through: one of its locators was
\* clicked, or all of them were tried
Attempted(step) == OfStep(f_clicked, step) # <<>> \/ Exhausted(step)

\* the positions in f_tried of the tries of a step
TriesOf(step) == {i \in 1 .. Len(f_tried) : f_tried[i].step = step}

\* C20 (as stated): a week's download is saved only after the Export control
\* was opened, then the CSV format was selected, then the export was
\* confirmed, with none of the three skipped.
C20_NoStateSkipped ==
    WeekSaved
    => /\ OfStep(f_clicked, "open") # <<>> \/ OfStep(f_clicked, "text_export") # <<>>
       /\ OfStep(f_clicked, "csv") # <<>>
       /\ OfStep(f_clicked, "confirm") # <<>>

\* C20: a week's download is saved only after its report page was loaded, an
\* Export control was clicked (open step), the CSV step and then the confirm
\* step were each gone through (a locator clicked, or every locator tried
\* and none found), and the download arrived, in that order; the CSV
\* selection and the confirm click themselves may be missing. A saved
\* download and a failed acquisition are terminal for the week: the week is
\* saved at most once, no flow step follows the save, and after a failure
\* the week is never saved.
C20_SavedOnlyThroughFlow ==
    cfg.prog = "report"
    => /\ WeekSaved
             => /\ f_step = "returned" /\ ~armed
                /\ pc \notin {"goto_report", "flow", "save_raw"}
                /\ OfStep(f_clicked, "open") # <<>> \/ OfStep(f_clicked, "text_export") # <<>>
                /\ Attempted("csv") /\ Attempted("confirm")
                /\ ExportClicked
                /\ \A i \in TriesOf("csv") :
                      /\ \A j \in TriesOf("open") \cup TriesOf("text_export") : j < i
                      /\ \A j \in TriesOf("confirm") : i < j
       /\ \A i, j \in 1 .. Len(raw_files) : raw_files[i] = raw_files[j] => i = j
       /\ \A i \in 1 .. Len(raw_files) : raw_files[i] = attempted[i]
       /\ (exit \in AcquisitionFailures /\ attempted # <<>>)
             => /\ pc \in {"finally", "exited"}
                /\ ~WeekSaved
                /\ Len(raw_files) = Len(attempted) - 1

C20_Witness ==
    /\ WeekSaved /\ pc = "summarize" /\ Len(raw_files) = 2
    /\ Exhausted("open") /\ OfStep(f_clicked, "text_export") # <<>>
    /\ Exhausted("csv")
    /\ OfStep(f_clicked, "confirm") # <<>>

\* the run is stopped at a wait without a timeout, for a person to act
LoginPrompts == {"otp_prompt", "r_otp_prompt", "r_manual_login"}

ConsentWaits == {"oauth_consent", "r_oauth_consent"}

AtLoginPrompt ==
    \/ pc \in LoginPrompts
    \/ cfg.prog = "report" /\ pc = "login" /\ ~cfg.auto_login

BlockedIndefinitely == AtLoginPrompt \/ pc \in ConsentWaits

\* C18: the only point of a run that can block indefinitely is the
\* interactive login prompt, which occurs at most once per run and only
\* when no session file existed at start; every other wait has a timeout.
C18_OnlyLoginPromptBlocks ==
    cfg.prog = "report"
    => /\ BlockedIndefinitely
             => /\ AtLoginPrompt
                /\ ~state_file_at_start
                /\ prompts = <<>>
       /\ Len(prompts) <= 1
       /\ \A i \in 1 .. Len(prompts) : prompts[i] \in {"login", "otp"}

\* C21: the session-state file is written only after authentication has
\* succeeded: in a run that started without it, a login (automated or
\* manual) that leaves the browser unauthenticated writes no session file.
C21_StateSavedOnlyAuthenticated ==
    (~state_file_at_start /\ ~authenticated) => (state_writes = 0 /\ ~state_file)

\* the summary rows of the uploads that completed, in the order of the calls
RECURSIVE DoneRows(_)
DoneRows(calls) ==
    IF calls = <<>> THEN <<>>
    ELSE IF Head(calls).done
    THEN <<SummaryRowOf(Head(calls).week)>> \o DoneRows(Tail(calls))
    ELSE DoneRows(Tail(calls))

\* C22: in overwrite mode with upload enabled, once k >= 1 weeks of the run
\* have been uploaded the tab holds exactly the header followed by the k
\* summary rows of this run in chronological order, whatever it held before:
\* no row of an earlier run survives.
C22_OverwriteReplacesTab ==
    (cfg.prog = "report" /\ cfg.upload /\ cfg.mode = "overwrite"
        /\ DoneRows(sync_calls) # <<>>)
    => /\ tab = <<Header>> \o DoneRows(sync_calls)
       /\ \A i, j \in 2 .. Len(tab) : i < j => tab[i].end < tab[j].start
       /\ \A i \in 2 .. Len(tab) : tab[i] = all_summary_rows[i - 1]

C22_Witness ==
    /\ cfg.prog = "report" /\ cfg.upload /\ cfg.mode = "overwrite"
    /\ pc = "exited" /\ exit = "ok"
    /\ Len(DoneRows(sync_calls)) = 2 /\ Len(tab) = 3

\* C25: for every week processed the page is first navigated to the report
\* address carrying exactly that week's start and end, the wait for the
\* download is armed before the first export click of the week and stays
\* armed until the flow has returned, and the download is saved under that
\* week's date range.
C25_WeekUrlThenArmedFlow ==
    cfg.prog = "report"
    => /\ pc \in {"flow", "save_raw", "summarize"}
             => /\ page_url.path = "marketing/reports/channels"
                /\ page_url.since = ymd(week[1])
                /\ page_url.until = ymd(week[2])
                /\ week = attempted[Len(attempted)]
       /\ pc = "flow" => armed
       /\ pc = "goto_report" => (f_tried = <<>> /\ ~armed)
       /\ (f_tried # <<>> /\ ~armed) => (f_step = "returned" /\ pc # "flow")
       /\ \A i \in 1 .. Len(raw_files) : raw_files[i] = attempted[i]
       /\ pc = "summarize" => raw_files[Len(raw_files)] = week
       /\ \A i, j \in 1 .. Len(attempted) :
             i # j => ymd(attempted[i][1]) # ymd(attempted[j][1])

C25_Witness ==
    /\ cfg.prog = "report" /\ pc = "summarize"
    /\ Len(attempted) = 2 /\ week[1] < week[2]
    /\ page_url.since = ymd(week[1]) /\ page_url.until = ymd(week[2])
    /\ f_clicked # <<>>

C13_AppendKeepsRows ==
    [][(cfg.prog = "report" /\ pc = "upload"
            /\ upload_mode(overwrite_first) = "append" /\ tab' # tab)
        => /\ IsPrefix(tab, tab')
           /\ tab = <<>> => tab' = <<Header, SummaryRowOf(week)>>
           /\ tab # <<>> => tab' = tab \o <<SummaryRowOf(week)>>]_vars


\* The stepped generator and the recursive definition yield the same ranges.
IterWeeksAgree ==
    p_pc = "done" => p_out = iter_weeks(p_since, p_until, p_ws).weeks

\* C6: for since <= until and week_start_day in 0..6 the ranges yielded by
\* iter_weeks are contiguous (each start is the previous end plus one day),
\* hence non-overlapping, cover exactly [since, until] (first start = since,
\* last end = until), each spans at most 7 days, and partition(d, d, w) is
\* exactly [(d, d)].
C6_PartitionCovers ==
    (p_since <= p_until /\ p_ws \in WeekStartDays) =>
        /\ \A i \in 1 .. Len(p_out) :
              /\ p_out[i][1] <= p_out[i][2]
              /\ p_out[i][2] - p_out[i][1] + 1 <= 7
              /\ p_out[i][2] <= p_until
        /\ \A i \in 1 .. Len(p_out) - 1 : p_out[i + 1][1] = p_out[i][2] + 1
        /\ (Len(p_out) >= 1 => p_out[1][1] = p_since)
        /\ (p_pc = "done" =>
              /\ Len(p_out) >= 1
              /\ p_out[Len(p_out)][2] = p_until)
        /\ (p_pc = "done" /\ p_since = p_until => p_out = <<<<p_since, p_since>>>>)

\* C6 witness: a finished partition of three or more ranges whose first range
\* is clipped by since and whose last range is clipped by until.
C6_Witness ==
    /\ p_pc = "done"
    /\ Len(p_out) >= 3
    /\ p_out[1][2] - p_out[1][1] < 6
    /\ p_out[Len(p_out)][2] - p_out[Len(p_out)][1] < 6
    /\ p_out[2][2] - p_out[2][1] = 6

\* C23: every range lies within one calendar week anchored on
\* week_start_day (at most 7 days, ending no later than the day before the
\* next week start); every range but the first starts on week_start_day and
\* every range but the last ends on the last day of its week, so only the
\* first range can be shortened by since and only the last by until.
C23_RangesWithinAnchoredWeeks ==
    (p_since <= p_until /\ p_ws \in WeekStartDays) =>
        \A i \in 1 .. Len(p_out) :
            LET start == p_out[i][1]
                end == p_out[i][2]
                lastDay == (p_ws + 6) % 7
            IN  /\ end - start <= 6
                /\ \A d \in start + 1 .. end : weekday(d) # p_ws
                /\ i > 1 => weekday(start) = p_ws
                /\ i < Len(p_out) => weekday(end) = lastDay
                /\ weekday(end) # lastDay => end = p_until
                /\ weekday(start) # p_ws => (i = 1 /\ start = p_since)
                /\ (1 < i /\ i < Len(p_out)) => end - start = 6

C23_Witness ==
    /\ p_pc = "done" /\ p_ws = 3
    /\ Len(p_out) = 3
    /\ weekday(p_out[1][1]) # p_ws
    /\ weekday(p_out[3][2]) # (p_ws + 6) % 7
    /\ p_out[2][2] - p_out[2][1] = 6

\* what holds of the generator at every point of its run
PartitionProgress ==
    (p_since <= p_until) =>
        /\ \A i \in 1 .. Len(p_out) : p_out[i][1] <= p_out[i][2]
        /\ \A i \in 1 .. Len(p_out) - 1 : p_out[i][1] < p_out[i + 1][1]
        /\ p_out # <<>> => p_out[Len(p_out)][1] < p_cur
        /\ p_out = <<>> => p_cur = p_since
        /\ Len(p_out) <= ((p_until - p_since) \div 7) + 2

\* C24: for since <= until and every week_start_day the generator ends:
\* each range has start <= end, the cursor strictly increases at every
\* pass, and at most floor((until - since) / 7) + 2 ranges are yielded.
C24_PartitionTerminates == []PartitionProgress /\ <>(p_pc = "done")

C24_Witness ==
    /\ p_pc = "done" /\ p_since < p_until
    /\ Len(p_out) = ((p_until - p_since) \div 7) + 2
    /\ Len(p_out) = 3

(***************************************************************************)
(* Claims on the aggregation                                               *)
(***************************************************************************)

\* The fields the drawn export carries.
LayoutFields == {a_layout[i].field : i \in 1 .. Len(a_layout)}

\* The parsed amount (mills) of field f of data row i; an absent column counts 0.
ParsedAmount(i, f) == IF f \in LayoutFields THEN to_number(a_rows[i][f]).v ELSE 0

\* The bucket of each data row.
RowBuckets ==
    [i \in 1 .. Len(a_rows) |-> bucket_row(a_rows[i].rp, a_rows[i].ch, a_rows[i].ty)]

\* The sum (mills) of the amounts over the data rows that cls puts in bucket b.
BucketTotal(cls, amounts, b) ==
    SumSeq([i \in 1 .. Len(a_rows) |-> IF cls[i] = b THEN amounts[i] ELSE 0])

\* The parsed amounts (mills) of field f, one per data row.
ParsedColumn(f) == [i \in 1 .. Len(a_rows) |-> ParsedAmount(i, f)]

\* The sum (mills) of field f over all data rows.
GrandTotal(f) == SumSeq([i \in 1 .. Len(a_rows) |-> ParsedAmount(i, f)])

Produced == a_pc = "done" /\ a_result.raised = "none"

BucketOrder ==
    <<DirectOrganic, GoogleAdsPaid, GoogleOrganic, AttentiveSMS, PriveyEmail,
      ActiveCampaign, OtherMisc>>

\* The sum (cents) of the seven bucket sales fields of the summary row.
SumOfBucketFields == SumSeq([i \in 1 .. 7 |-> a_result.row[BucketOrder[i]]])

Abs(x) == IF x < 0 THEN 0 - x ELSE x

\* C8: each bucket's sales field of the summary row is the sum of the parsed
\* sales of the rows classified into that bucket (duplicates add up, a
\* bucket without rows reports 0), each of the three cost fields is the
\* summed cost of its bucket, and the rows (google, paid, $100.00),
\* (google, organic, 50), (direct, '', 25) with no cost give 100, 50, 25,
\* Tot_Sales 175 and GPM 1.0.
C8_BucketSums ==
    Produced =>
        LET cls == RowBuckets
            sales == ParsedColumn("sales")
            cost == ParsedColumn("cost")
        IN
        /\ \A b \in Buckets : a_result.row[b] = round2(BucketTotal(cls, sales, b))
        /\ a_result.row["Google ads (Cost)"] = round2(BucketTotal(cls, cost, GoogleAdsPaid))
        /\ a_result.row["Privey Email Marketing (Cost)"] = round2(BucketTotal(cls, cost, PriveyEmail))
        /\ a_result.row["Attentive SMS (Cost)"] = round2(BucketTotal(cls, cost, AttentiveSMS))
        /\ (a_rows = <<RowGooglePaid, RowGoogleOrganic, RowDirect>> /\ a_layout = HeaderNoCost
            => /\ a_result.row[GoogleAdsPaid] = 10000
               /\ a_result.row[GoogleOrganic] = 5000
               /\ a_result.row[DirectOrganic] = 2500
               /\ a_result.row["Tot Sales"] = 17500
               /\ a_result.row["GPM"] = 10000)

\* C8 witness: a summary row of an export with a duplicated paid-google row
\* and an organic-google row with costs: the duplicates add up in the sales
\* and cost fields and the buckets without rows report 0.
C8_Witness ==
    /\ Produced
    /\ a_layout = HeaderFull
    /\ a_rows = <<RowGooglePaid, RowGoogleOrganic, RowGooglePaid>>
    /\ a_result.row[GoogleAdsPaid] = 20000
    /\ a_result.row["Google ads (Cost)"] = 4000
    /\ a_result.row[GoogleOrganic] = 5000
    /\ a_result.row[PriveyEmail] = 0
    /\ a_result.row["Privey Email Marketing (Cost)"] = 0

\* Every parsed sales amount of the export is a whole number of cents.
WholeCents == \A i \in 1 .. Len(a_rows) : ParsedAmount(i, "sales") % 10 = 0

\* C9: Tot_Sales equals the sum of the seven bucket sales fields up to the
\* rounding of the eight fields at 2 decimals (half a cent each), and
\* exactly when every parsed amount is a whole number of cents.
C9_TotalIsSumOfBuckets ==
    Produced =>
        /\ Abs(a_result.row["Tot Sales"] - SumOfBucketFields) <= 4
        /\ (WholeCents => a_result.row["Tot Sales"] = SumOfBucketFields)
        /\ a_result.row["Tot Sales"] = round2(GrandTotal("sales"))

\* C9 witness: a summary row whose Tot_Sales differs from the sum of the
\* bucket fields by rounding alone (sub-cent amounts in two buckets).
C9_Witness ==
    /\ Produced
    /\ a_result.row["Tot Sales"] # SumOfBucketFields
    /\ a_result.row[OtherMisc] > 0

\* The sum (cents) of the three cost fields of the summary row.
SumOfCostFields ==
    a_result.row["Google ads (Cost)"] + a_result.row["Privey Email Marketing (Cost)"]
        + a_result.row["Attentive SMS (Cost)"]

\* The cost (mills) of the rows of the four buckets without a cost field.
CostOutsideCostFields ==
    SumSeq([i \in 1 .. Len(a_rows) |->
               IF RowBuckets[i] \in {GoogleAdsPaid, PriveyEmail, AttentiveSMS}
               THEN 0 ELSE ParsedAmount(i, "cost")])

NonNegativeCosts == \A i \in 1 .. Len(a_rows) : ParsedAmount(i, "cost") >= 0

\* Every parsed cost of the export is a whole number of cents.
WholeCentCosts == \A i \in 1 .. Len(a_rows) : ParsedAmount(i, "cost") % 10 = 0

\* C28 (as stated): Total_Cost is the sum of the cost of every row whatever
\* its bucket; with non-negative costs it is at least the sum of the three
\* cost fields, and equal to it exactly when the rows of the other four
\* buckets carry zero cost.
C28_TotalCostAtLeastCostFields ==
    Produced =>
        /\ a_result.row["Total Cost"] = round2(GrandTotal("cost"))
        /\ NonNegativeCosts =>
              /\ a_result.row["Total Cost"] >= SumOfCostFields
              /\ (a_result.row["Total Cost"] = SumOfCostFields)
                     <=> (CostOutsideCostFields = 0)

\* C28: Total_Cost is the sum, rounded to 2 decimals, of the cost of every
\* row whatever its bucket, rows of the buckets without a cost field
\* included. With non-negative costs it is at least the sum of the three
\* cost fields up to the rounding of the four fields (2 cents); when every
\* cost is a whole number of cents it is at least that sum, and equal to it
\* exactly when the rows of the other four buckets carry zero cost.
C28_TotalCostCoversEveryRow ==
    Produced =>
        /\ a_result.row["Total Cost"] = round2(GrandTotal("cost"))
        /\ NonNegativeCosts =>
              /\ a_result.row["Total Cost"] >= SumOfCostFields - 2
              /\ CostOutsideCostFields = 0
                    => Abs(a_result.row["Total Cost"] - SumOfCostFields) <= 2
              /\ WholeCentCosts =>
                    /\ a_result.row["Total Cost"]
                          = SumOfCostFields + (CostOutsideCostFields \div 10)
                    /\ (a_result.row["Total Cost"] = SumOfCostFields)
                           <=> (CostOutsideCostFields = 0)

\* C28 witness: whole-cent costs in a bucket with a cost field and in two
\* buckets without one: Total_Cost exceeds the sum of the cost fields by the
\* cost of the latter.
C28_Witness ==
    /\ Produced /\ NonNegativeCosts /\ WholeCentCosts
    /\ Len(a_rows) = 3
    /\ a_rows[1] = RowGooglePaid /\ a_rows[2] = RowDirectEmail /\ a_rows[3] = RowFacebook
    /\ SumOfCostFields = 2000
    /\ a_result.row["Total Cost"] = 3700

\* C10: GPM is (total_sales - total_cost) / total_sales rounded to 4
\* decimals when total_sales is not 0 and exactly 0 when it is 0; the
\* aggregation never ends with a division by zero (an export without data
\* rows either gives a row with GPM 0 or fails on the missing rows).
C10_GpmGuarded ==
    a_pc = "done" =>
        /\ a_result.raised \in
              {"none", "ValueError: CSV missing required columns",
               "ValueError: cannot set a frame as a column"}
        /\ (a_result.raised = "ValueError: cannot set a frame as a column"
              => \A i \in 1 .. Len(a_rows) : a_rows[i] \in {RowBlank, RowSpaces})
        /\ (a_result.raised = "none" /\ GrandTotal("sales") = 0
              => a_result.row["GPM"] = 0)
        /\ (a_result.raised = "none" /\ GrandTotal("sales") # 0
              => a_result.row["GPM"] =
                    RoundedQuotient(GrandTotal("sales") - GrandTotal("cost"),
                                    GrandTotal("sales"), 4))

\* C10 witness: a summary row of an export whose sales total 0 while its
\* cost does not: GPM is 0.
C10_Witness ==
    /\ Produced
    /\ Len(a_rows) >= 1
    /\ GrandTotal("sales") = 0
    /\ GrandTotal("cost") > 0
    /\ a_result.row["GPM"] = 0

\* C29: in run_export the report is navigated to and the export attempted
\* only in a context that loaded the persisted session state or was taken
\* through the login step (automated or manual) in this run.
C29_ReportOnlyWithSession ==
    (cfg.prog = "runner" /\ attempted # <<>>) => session \in {"loaded", "login"}

====
